---- MODULE Spec2Model ----
(***************************************************************************)
(* A model of fancy-regex: the Regex dispatcher (Wrap / Impl), Captures,   *)
(* the capture iterator, RegexBuilder and Expr::to_str of src/src/lib.rs,  *)
(* with the parser, the analyzer, the compiler and the backtracking VM     *)
(* (modules parse, analyze, compile, vm: not part of the source tree at    *)
(* hand) modelled from the design specification, and the linear engine     *)
(* (the regex crate) modelled as a leftmost-first matcher.                  *)
(*                                                                         *)
(* Texts are sequences of bytes (UTF-8); byte offsets are 0-based as in    *)
(* the code, so the byte at offset ix of text is text[ix + 1].  A String   *)
(* of the program that is read by characters (a pattern, the value of a    *)
(* Literal, what to_str writes) is the sequence of its code points.        *)
(***************************************************************************)
EXTENDS Integers, Sequences, FiniteSets, TLC

\* usize::MAX: the "unset" sentinel of a save slot and the "no upper bound"
\* of Repeat.hi.  A usize is held as the integer of the model checker that is
\* congruent to it modulo 2^64: 0 .. 2^31 - 1 are themselves and usize::MAX,
\* 2^64 - 1, is -1, so that usize::MAX is no value an offset, a count or a
\* repetition bound can take and usize::MAX + 1 wraps to 0 as in the code.
UsizeMax == -1

\* a < b as usize values.
UsizeLt(a, b) == IF (a < 0) = (b < 0) THEN a < b ELSE b < 0

\* The stack budget of one VM run, in backtrack frames (StackOverflow
\* beyond): the design specification names the budget without its value, and
\* no text of this model comes near it.
MaxStack == 1000000

\* The number of VM instructions after which the model stops following a run.
MaxSteps == 2048

\* No backtrack limit is in force.
NoLimit == -1

None == [k |-> "None"]
Some(v) == [k |-> "Some", v |-> v]
Ok(v) == [k |-> "Ok", v |-> v]
Err(e) == [k |-> "Err", err |-> e]
\* A panic of the Rust code (an index out of bounds, an arithmetic underflow).
Panic == [k |-> "Panic"]
\* The operation has not been called.
NotCalled == [k |-> "NotCalled"]

Min(S) == CHOOSE x \in S : \A y \in S : x <= y

(***************************************************************************)
(* Bytes and code points                                                   *)
(***************************************************************************)

\* lib.rs codepoint_len: the length of the code point whose first byte is b.
codepoint_len(b) ==
    IF b < 128 THEN 1
    ELSE IF b < 224 THEN 2
    ELSE IF b < 240 THEN 3
    ELSE 4

\* (b as i8): the byte reinterpreted as a signed 8-bit integer.
AsI8(b) == IF b >= 128 THEN b - 256 ELSE b

\* Whether offset ix is a code-point boundary of text (str::is_char_boundary).
IsCharBoundary(text, ix) ==
    \/ ix = 0
    \/ ix = Len(text)
    \/ ix > 0 /\ ix < Len(text) /\ AsI8(text[ix + 1]) >= -64

\* &text[pos..] panics: pos is beyond the end of text or inside a code point.
SlicePanics(text, pos) == pos > Len(text) \/ ~IsCharBoundary(text, pos)
\* &text[pos..]
SliceFrom(text, pos) ==
    IF SlicePanics(text, pos) THEN Panic ELSE SubSeq(text, pos + 1, Len(text))

IsDigitByte(b) == b >= 48 /\ b <= 57
IsSpaceByte(b) == b \in {32, 9, 10, 13, 12, 11}
\* ASCII word bytes, plus every byte of a non-ASCII code point: the only
\* non-ASCII code point of the texts of this model is U+00E9, a letter.
IsWordByte(b) ==
    \/ IsDigitByte(b)
    \/ b >= 65 /\ b <= 90
    \/ b >= 97 /\ b <= 122
    \/ b = 95
    \/ b >= 128

Lower(b) == IF b >= 65 /\ b <= 90 THEN b + 32 ELSE b

\* The printable ASCII characters a string constant of this module is
\* written with, from the space (32) to '~' (126) without the grave accent
\* (96); any other character is written as its code point.
Ascii == " !\"#$%&'()*+,-./0123456789:;<=>?@ABCDEFGHIJKLMNOPQRSTUVWXYZ[\\]^_abcdefghijklmnopqrstuvwxyz{|}~"
\* The code point of the p-th character of Ascii.
OrdAt(p) == IF p > 64 THEN p + 32 ELSE p + 31
\* The code points of the characters of Ascii.
AsciiOrd ==
    [c \in {SubSeq(Ascii, i, i) : i \in 1..Len(Ascii)} |->
        OrdAt(CHOOSE i \in 1..Len(Ascii) : SubSeq(Ascii, i, i) = c)]
\* The code point of the character written c.
Ord(c) == AsciiOrd[c]
\* The String written s: its code points.
Str(s) == [i \in 1..Len(s) |-> Ord(SubSeq(s, i, i))]

\* The UTF-8 encoding of the code point c.
Utf8(c) ==
    IF c < 128 THEN <<c>>
    ELSE IF c < 2048 THEN <<192 + (c \div 64), 128 + (c % 64)>>
    ELSE IF c < 65536
    THEN <<224 + (c \div 4096), 128 + ((c \div 64) % 64), 128 + (c % 64)>>
    ELSE <<240 + (c \div 262144), 128 + ((c \div 4096) % 64),
           128 + ((c \div 64) % 64), 128 + (c % 64)>>
RECURSIVE as_bytes(_)
\* str::as_bytes: the bytes of the String s.
as_bytes(s) == IF s = <<>> THEN <<>> ELSE Utf8(Head(s)) \o as_bytes(Tail(s))

(***************************************************************************)
(* Expr, the AST (lib.rs, enum Expr)                                       *)
(***************************************************************************)
Empty == [t |-> "Empty"]
\* Expr::Any (the name Any is taken by the TLC module)
ExprAny(newline) == [t |-> "Any", newline |-> newline]
StartText == [t |-> "StartText"]
EndText == [t |-> "EndText"]
StartLine == [t |-> "StartLine"]
EndLine == [t |-> "EndLine"]
Literal(val, casei) == [t |-> "Literal", val |-> val, casei |-> casei]
Concat(children) == [t |-> "Concat", children |-> children]
Alt(children) == [t |-> "Alt", children |-> children]
Group(child) == [t |-> "Group", child |-> child]
LookAround(child, kind) == [t |-> "LookAround", child |-> child, kind |-> kind]
Repeat(child, lo, hi, greedy) ==
    [t |-> "Repeat", child |-> child, lo |-> lo, hi |-> hi, greedy |-> greedy]
Delegate(inner, size, casei) ==
    [t |-> "Delegate", inner |-> inner, size |-> size, casei |-> casei]
Backref(group) == [t |-> "Backref", group |-> group]
AtomicGroup(child) == [t |-> "AtomicGroup", child |-> child]

(***************************************************************************)
(* The analyzer (module analyze; from the design specification, 4.2)       *)
(***************************************************************************)
RECURSIVE NGroups(_), NGroupsSeq(_)
\* The number of capturing groups of e (end_group - start_group).
NGroups(e) ==
    CASE e.t = "Group" -> 1 + NGroups(e.child)
      [] e.t \in {"Concat", "Alt"} -> NGroupsSeq(e.children)
      [] e.t \in {"LookAround", "Repeat", "AtomicGroup"} -> NGroups(e.child)
      [] OTHER -> 0
NGroupsSeq(s) == IF s = <<>> THEN 0 ELSE NGroups(Head(s)) + NGroupsSeq(Tail(s))

RECURSIVE Hard(_)
\* Info.hard: the expression needs the backtracking VM.
Hard(e) ==
    CASE e.t \in {"Backref", "LookAround", "AtomicGroup"} -> TRUE
      [] e.t \in {"Concat", "Alt"} -> \E i \in DOMAIN e.children : Hard(e.children[i])
      [] e.t \in {"Group", "Repeat"} -> Hard(e.child)
      [] OTHER -> FALSE

RECURSIVE MinSize(_), MinSizeSeq(_)
\* Info.min_size: the least number of bytes a match of e consumes.
MinSize(e) ==
    CASE e.t = "Any" -> 1
      [] e.t = "Literal" -> Len(as_bytes(e.val))
      [] e.t = "Delegate" -> e.size
      [] e.t = "Concat" -> MinSizeSeq(e.children)
      [] e.t = "Alt" -> Min({MinSize(e.children[i]) : i \in DOMAIN e.children})
      [] e.t \in {"Group", "AtomicGroup"} -> MinSize(e.child)
      [] e.t = "Repeat" -> e.lo * MinSize(e.child)
      [] OTHER -> 0
MinSizeSeq(s) == IF s = <<>> THEN 0 ELSE MinSize(Head(s)) + MinSizeSeq(Tail(s))

RECURSIVE LooksLeft(_), LooksLeftSeq(_)
\* Info.looks_left: the leftmost atom can observe the text before the start
\* of the match (a zero-width delegate such as \b, a line start, a
\* look-behind).
LooksLeft(e) ==
    CASE e.t = "StartLine" -> TRUE
      [] e.t = "Delegate" -> e.size = 0
      [] e.t = "LookAround" -> e.kind \in {"LookBehind", "LookBehindNeg"}
      [] e.t = "Concat" -> LooksLeftSeq(e.children)
      [] e.t = "Alt" -> \E i \in DOMAIN e.children : LooksLeft(e.children[i])
      [] e.t \in {"Group", "AtomicGroup"} -> LooksLeft(e.child)
      [] e.t = "Repeat" -> LooksLeft(e.child)
      [] OTHER -> FALSE
LooksLeftSeq(s) ==
    IF s = <<>> THEN FALSE
    ELSE LooksLeft(Head(s)) \/ (MinSize(Head(s)) = 0 /\ LooksLeftSeq(Tail(s)))

RECURSIVE ConstSize(_), ConstSizeSeq(_)
\* Info.const_size: the number of bytes every match of e consumes, or -1 when
\* there is no such number (None).
ConstSize(e) ==
    CASE e.t = "Any" -> 1
      [] e.t = "Literal" -> Len(as_bytes(e.val))
      [] e.t = "Delegate" -> e.size
      [] e.t = "Concat" -> ConstSizeSeq(e.children)
      [] e.t = "Alt" ->
            IF \A i \in DOMAIN e.children : ConstSize(e.children[i]) = ConstSize(e.children[1])
            THEN ConstSize(e.children[1]) ELSE -1
      [] e.t \in {"Group", "LookAround", "AtomicGroup"} -> ConstSize(e.child)
      [] e.t = "Repeat" ->
            IF e.lo = e.hi /\ ConstSize(e.child) # -1 THEN e.lo * ConstSize(e.child) ELSE -1
      [] e.t = "Backref" -> -1
      [] OTHER -> 0
ConstSizeSeq(s) ==
    IF s = <<>> THEN 0
    ELSE IF ConstSize(Head(s)) = -1 \/ ConstSizeSeq(Tail(s)) = -1 THEN -1
    ELSE ConstSize(Head(s)) + ConstSizeSeq(Tail(s))

RECURSIVE InvalidBackrefFrom(_, _), InvalidBackrefSeq(_, _)
\* Validation of the backreferences: e, whose first group is numbered g, has
\* a Backref to a group that is not open yet where the walk reaches it.
InvalidBackrefFrom(e, g) ==
    CASE e.t = "Backref" -> e.group >= g
      [] e.t = "Group" -> InvalidBackrefFrom(e.child, g + 1)
      [] e.t \in {"Concat", "Alt"} -> InvalidBackrefSeq(e.children, g)
      [] e.t \in {"LookAround", "Repeat", "AtomicGroup"} -> InvalidBackrefFrom(e.child, g)
      [] OTHER -> FALSE
InvalidBackrefSeq(s, g) ==
    IF s = <<>> THEN FALSE
    ELSE \/ InvalidBackrefFrom(Head(s), g)
         \/ InvalidBackrefSeq(Tail(s), g + NGroups(Head(s)))

RECURSIVE LookBehindNotConst(_)
\* Validation of the look-behinds: e has a look-behind whose child has no
\* constant size.
LookBehindNotConst(e) ==
    CASE e.t = "LookAround" ->
            \/ e.kind \in {"LookBehind", "LookBehindNeg"} /\ ConstSize(e.child) = -1
            \/ LookBehindNotConst(e.child)
      [] e.t \in {"Concat", "Alt"} -> \E i \in DOMAIN e.children : LookBehindNotConst(e.children[i])
      [] e.t \in {"Group", "Repeat", "AtomicGroup"} -> LookBehindNotConst(e.child)
      [] OTHER -> FALSE

(***************************************************************************)
(* The compiler (module compile; from the design specification, 4.3).      *)
(* A program is a sequence of instructions; pc values are 1-based indices  *)
(* into it.  Compile(e, base, g) is the code of e placed at pc base, where *)
(* g is the number of the first capturing group inside e.                  *)
(***************************************************************************)
InsnEnd == [op |-> "End"]
InsnSplit(x, y) == [op |-> "Split", x |-> x, y |-> y]
InsnJmp(target) == [op |-> "Jmp", target |-> target]
InsnSave(slot) == [op |-> "Save", slot |-> slot]

\* Split for a repetition: the greedy form tries the body first.
RepeatSplit(body, exit, greedy) ==
    IF greedy THEN InsnSplit(body, exit) ELSE InsnSplit(exit, body)

\* Const size of a look-behind child (the compiler steps back that far).
LookBehindWidth(e) == IF e.kind \in {"LookBehind", "LookBehindNeg"} THEN MinSize(e.child) ELSE 0

RECURSIVE Compile(_, _, _), CompileConcat(_, _, _), CompileAlt(_, _, _, _),
          CompileCopies(_, _, _, _), CompileOptional(_, _, _, _, _, _)
Compile(e, base, g) ==
    CASE e.t = "Empty" -> <<>>
      [] e.t = "Any" -> <<[op |-> "Any", newline |-> e.newline]>>
      [] e.t \in {"StartText", "EndText", "StartLine", "EndLine"} ->
            <<[op |-> "Assert", kind |-> e.t]>>
      [] e.t = "Literal" -> <<[op |-> "Lit", val |-> as_bytes(e.val), casei |-> e.casei]>>
      [] e.t = "Delegate" ->
            IF e.size = 0
            THEN <<[op |-> "Assert",
                    kind |-> IF e.inner = <<92, 98>> THEN "WordBoundary"    \* "\\b"
                             ELSE "NotWordBoundary"]>>
            ELSE <<[op |-> "Class", name |-> e.inner]>>
      [] e.t = "Backref" -> <<[op |-> "Backref", group |-> e.group]>>
      [] e.t = "Concat" -> CompileConcat(e.children, base, g)
      [] e.t = "Alt" ->
            CompileAlt(e.children, base, g,
                       base + Len(CompileAlt(e.children, base, g, 0)))
      [] e.t = "Group" ->
            <<InsnSave(2 * g)>> \o Compile(e.child, base + 1, g + 1)
                \o <<InsnSave(2 * g + 1)>>
      [] e.t = "LookAround" ->
            <<[op |-> "Look",
               sub |-> Compile(e.child, 1, g) \o <<InsnEnd>>,
               neg |-> e.kind \in {"LookAheadNeg", "LookBehindNeg"},
               back |-> LookBehindWidth(e)]>>
      [] e.t = "AtomicGroup" ->
            <<[op |-> "Atomic", sub |-> Compile(e.child, 1, g) \o <<InsnEnd>>]>>
      [] e.t = "Repeat" ->
            LET L == Len(Compile(e.child, 1, g))
                P == base + e.lo * L
                mandatory == CompileCopies(e.child, base, g, e.lo)
            IN  IF e.hi = UsizeMax
                THEN mandatory
                     \o <<RepeatSplit(P + 1, P + L + 2, e.greedy)>>
                     \o Compile(e.child, P + 1, g)
                     \o <<InsnJmp(P)>>
                ELSE mandatory
                     \o CompileOptional(e.child, P, g, e.hi - e.lo,
                                        P + (e.hi - e.lo) * (L + 1), e.greedy)
CompileConcat(children, base, g) ==
    IF children = <<>> THEN <<>>
    ELSE LET first == Compile(Head(children), base, g)
         IN  first \o CompileConcat(Tail(children), base + Len(first),
                                    g + NGroups(Head(children)))
\* Alternatives in order: the first one is tried first, the others are the
\* resumption points.
CompileAlt(children, base, g, end) ==
    IF Len(children) = 1 THEN Compile(Head(children), base, g)
    ELSE LET first == Compile(Head(children), base + 1, g)
             next == base + 1 + Len(first) + 1
         IN  <<InsnSplit(base + 1, next)>> \o first \o <<InsnJmp(end)>>
             \o CompileAlt(Tail(children), next, g + NGroups(Head(children)), end)
CompileCopies(e, base, g, n) ==
    IF n = 0 THEN <<>>
    ELSE LET first == Compile(e, base, g)
         IN  first \o CompileCopies(e, base + Len(first), g, n - 1)
CompileOptional(e, base, g, n, end, greedy) ==
    IF n = 0 THEN <<>>
    ELSE LET first == Compile(e, base + 1, g)
         IN  <<RepeatSplit(base + 1, end, greedy)>> \o first
             \o CompileOptional(e, base + 1 + Len(first), g, n - 1, end, greedy)

\* The wrapper of Regex::new_with_size_limit: search for raw_e at any start
\* position and capture the bounds of the match as group 0.
WrapExpr(raw_e) ==
    Concat(<<Repeat(ExprAny(TRUE), 0, UsizeMax, FALSE), Group(raw_e)>>)

\* compile(&info): the program of the wrapped expression.
CompileProg(e) == [body |-> Compile(e, 1, 0) \o <<InsnEnd>>, n_saves |-> 2 * NGroups(e)]

(***************************************************************************)
(* The backtracking VM (module vm; from the design specification, 4.4)     *)
(***************************************************************************)
VmInit(n_saves, pos) ==
    [pc |-> 1, ip |-> pos, saves |-> [i \in 1..n_saves |-> UsizeMax],
     stack |-> <<>>, undo |-> <<>>, steps |-> 0, status |-> "Running"]

\* saves[slot], slots being numbered from 0
SaveAt(saves, slot) == saves[slot + 1]

\* A frame popped without taking back the saves written since it was pushed.
RewindNothing(saves, undo, mark) == saves

\* The saves with every undo entry pushed after mark taken back: a slot gets
\* the value it had when the first of those entries was pushed.
Rewind(saves, undo, mark) ==
    [i \in DOMAIN saves |->
        LET later == {k \in (mark + 1)..Len(undo) : undo[k].slot = i - 1}
        IN  IF later = {} THEN saves[i] ELSE undo[Min(later)].old]

\* A failure: pop a backtrack frame, restoring pc and ip and rewinding the
\* saves; with no frame left the run ends without a match.
Fail(st) ==
    IF st.stack = <<>> THEN [st EXCEPT !.status = "NoMatch"]
    ELSE LET f == st.stack[Len(st.stack)]
         IN  [st EXCEPT !.pc = f.pc, !.ip = f.ip,
                        !.stack = SubSeq(@, 1, Len(@) - 1),
                        !.saves = Rewind(st.saves, st.undo, f.mark),
                        !.undo = SubSeq(@, 1, f.mark)]

Advance(st, n) == [st EXCEPT !.pc = @ + 1, !.ip = @ + n]

WordAt(text, ix) == ix >= 0 /\ ix < Len(text) /\ IsWordByte(text[ix + 1])

Assertion(kind, text, ip) ==
    CASE kind = "StartText" -> ip = 0
      [] kind = "EndText" -> ip = Len(text)
      [] kind = "StartLine" -> ip = 0 \/ (ip <= Len(text) /\ text[ip] = 10)
      [] kind = "EndLine" -> ip = Len(text) \/ (ip < Len(text) /\ text[ip + 1] = 10)
      [] kind = "WordBoundary" -> WordAt(text, ip - 1) # WordAt(text, ip)
      [] kind = "NotWordBoundary" -> WordAt(text, ip - 1) = WordAt(text, ip)

\* The set of a predefined class, named by its letter c.
Predefined(c, b) ==
    CASE c \in {100, 68} -> IsDigitByte(b)    \* "dD"
      [] c \in {119, 87} -> IsWordByte(b)    \* "wW"
      [] c \in {115, 83} -> IsSpaceByte(b)    \* "sS"

RECURSIVE ClassHas(_, _, _)
\* b is a member of the bracketed class cls, read from offset i (0-based) up
\* to its closing ']': single characters, escapes and ranges x-y (of ASCII
\* characters, whose byte is their code point).
ClassHas(cls, i, b) ==
    IF i >= Len(cls) - 1 THEN FALSE
    ELSE IF cls[i + 1] = 92    \* '\\'
    THEN \/ IF cls[i + 2] \in {100, 119, 115} THEN Predefined(cls[i + 2], b)    \* "dws"
            ELSE IF cls[i + 2] \in {68, 87, 83} THEN ~Predefined(cls[i + 2], b)    \* "DWS"
            ELSE b = cls[i + 2]
         \/ ClassHas(cls, i + 2, b)
    ELSE IF cls[i + 2] = 45 /\ i + 2 < Len(cls) - 1    \* '-'
    THEN \/ cls[i + 1] <= b /\ b <= cls[i + 3]
         \/ ClassHas(cls, i + 3, b)
    ELSE b = cls[i + 1] \/ ClassHas(cls, i + 1, b)

\* The delegate of one character: a predefined class or a bracketed class.
ClassMatch(name, b) ==
    CASE name[1] = 92 ->    \* '\\'
            IF name[2] \in {100, 119, 115} THEN Predefined(name[2], b)    \* "dws"
            ELSE ~Predefined(name[2], b)
      [] name[1] = 91 /\ name[2] = 94 -> ~ClassHas(name, 2, b)    \* '[' '^'
      [] OTHER -> ClassHas(name, 1, b)

LitMatch(val, casei, text, ip) ==
    /\ ip + Len(val) <= Len(text)
    /\ \A k \in 1..Len(val) :
          IF casei THEN Lower(text[ip + k]) = Lower(val[k]) ELSE text[ip + k] = val[k]

\* A backreference that takes an unset group for the empty text.
BackrefEndUnsetIsEmpty(saves, group, text, ip) ==
    LET lo == SaveAt(saves, 2 * group)
        hi == SaveAt(saves, 2 * group + 1)
    IN  IF lo = UsizeMax \/ hi = UsizeMax THEN ip
        ELSE IF /\ ip + (hi - lo) <= Len(text)
                /\ \A k \in 1..(hi - lo) : text[ip + k] = text[lo + k]
             THEN ip + (hi - lo)
             ELSE UsizeMax

\* Backref: the input at ip starts with the text captured by the group; an
\* unset group never matches.
BackrefEnd(saves, group, text, ip) ==
    LET lo == SaveAt(saves, 2 * group)
        hi == SaveAt(saves, 2 * group + 1)
    IN  IF lo = UsizeMax \/ hi = UsizeMax \/ hi < lo \/ hi > Len(text) THEN UsizeMax
        ELSE IF /\ ip + (hi - lo) <= Len(text)
                /\ \A k \in 1..(hi - lo) : text[ip + k] = text[lo + k]
             THEN ip + (hi - lo)
             ELSE UsizeMax

RECURSIVE Step(_, _, _, _), Iter(_, _, _, _, _)
\* One instruction.  opts.limit is the backtrack limit (NoLimit: none),
\* opts.max_stack the stack budget.
Step(body, text, opts, st0) ==
    LET st == [st0 EXCEPT !.steps = @ + 1]
        ins == body[st.pc]
    IN  IF opts.limit # NoLimit /\ st.steps > opts.limit
        THEN [st EXCEPT !.status = "BacktrackLimitExceeded"]
        ELSE
        CASE ins.op = "End" -> [st EXCEPT !.status = "MatchFound"]
          [] ins.op = "Any" ->
                IF st.ip < Len(text) /\ (ins.newline \/ text[st.ip + 1] # 10)
                THEN Advance(st, codepoint_len(text[st.ip + 1]))
                ELSE Fail(st)
          [] ins.op = "Class" ->
                IF st.ip < Len(text) /\ ClassMatch(ins.name, text[st.ip + 1])
                THEN Advance(st, codepoint_len(text[st.ip + 1]))
                ELSE Fail(st)
          [] ins.op = "Lit" ->
                IF LitMatch(ins.val, ins.casei, text, st.ip)
                THEN Advance(st, Len(ins.val))
                ELSE Fail(st)
          [] ins.op = "Assert" ->
                IF Assertion(ins.kind, text, st.ip) THEN Advance(st, 0) ELSE Fail(st)
          [] ins.op = "Save" ->
                [st EXCEPT !.pc = @ + 1,
                           !.undo = Append(@, [slot |-> ins.slot,
                                               old |-> SaveAt(st.saves, ins.slot)]),
                           !.saves[ins.slot + 1] = st.ip]
          [] ins.op = "Split" ->
                IF ~UsizeLt(Len(st.stack), opts.max_stack)
                THEN [st EXCEPT !.status = "StackOverflow"]
                ELSE [st EXCEPT !.pc = ins.x,
                                !.stack = Append(@, [pc |-> ins.y, ip |-> st.ip,
                                                     mark |-> Len(st.undo)])]
          [] ins.op = "Jmp" -> [st EXCEPT !.pc = ins.target]
          [] ins.op = "Backref" ->
                LET e == BackrefEnd(st.saves, ins.group, text, st.ip)
                IN  IF e = UsizeMax THEN Fail(st) ELSE [st EXCEPT !.pc = @ + 1, !.ip = e]
          [] ins.op = "Look" ->
                IF st.ip < ins.back THEN Fail(st)
                ELSE LET r == Iter(ins.sub, text, opts,
                                   [st EXCEPT !.pc = 1, !.ip = st.ip - ins.back,
                                              !.stack = <<>>, !.undo = <<>>],
                                   MaxSteps)
                     IN  IF r.status \notin {"MatchFound", "NoMatch"}
                         THEN [st EXCEPT !.status = r.status, !.steps = r.steps]
                         ELSE IF (r.status = "MatchFound") # ins.neg
                         THEN [st EXCEPT !.pc = @ + 1, !.steps = r.steps]
                         ELSE Fail([st EXCEPT !.steps = r.steps])
          [] ins.op = "Atomic" ->
                LET r == Iter(ins.sub, text, opts,
                              [st EXCEPT !.pc = 1, !.stack = <<>>, !.undo = <<>>],
                              MaxSteps)
                IN  IF r.status \notin {"MatchFound", "NoMatch"}
                    THEN [st EXCEPT !.status = r.status, !.steps = r.steps]
                    ELSE IF r.status = "MatchFound"
                    THEN [st EXCEPT !.pc = @ + 1, !.ip = r.ip, !.steps = r.steps,
                                    !.saves = r.saves]
                    ELSE Fail([st EXCEPT !.steps = r.steps])

\* Up to n instructions from st (by halving, so that the evaluation does
\* not nest once per instruction).
Iter(body, text, opts, st, n) ==
    IF st.status # "Running" THEN st
    ELSE IF n <= 1 THEN Step(body, text, opts, st)
    ELSE Iter(body, text, opts, Iter(body, text, opts, st, n \div 2), n - (n \div 2))

\* vm::run: Ok(Some(saves)), Ok(None) or Err(status), with the number of
\* instructions the run executed.
VmRun(prog, text, pos, opts) ==
    LET st == Iter(prog.body, text, opts, VmInit(prog.n_saves, pos), MaxSteps)
    IN  CASE st.status = "MatchFound" -> [k |-> "Some", saves |-> st.saves, steps |-> st.steps]
          [] st.status = "NoMatch" -> [k |-> "None", steps |-> st.steps]
          [] OTHER -> [k |-> "Err", err |-> st.status, steps |-> st.steps]

(***************************************************************************)
(* The parser (module parse; from the design specification, 4.1)           *)
(***************************************************************************)
\* The patterns regexes are compiled from.
Patterns ==
    { Str("\\d+"), Str("(\\d)\\d"), Str("(\\d+)\\1"), Str("\\b(\\w)"), Str("(?m:^)(\\d+)"),
      Str("(\\w+)(?=\\.)|(\\w+)(?=!)"), Str("\\s*(\\w+)(?=\\.)"), Str("^(\\w+) (\\1)$"),
      Str("(?:(a)|b)\\1"), Str("(?!a)"), <<233>> }   \* the last one is U+00E9

(***************************************************************************)
(* Recursive descent over the characters of the pattern.  ix is a 0-based  *)
(* offset into re; a result is [k |-> "Ok", e, ix] with the expression     *)
(* read and the offset after it, or Err.                                   *)
(***************************************************************************)
\* Nesting deeper than this is RecursionExceeded.
MAX_RECURSION == 64

\* The character of re at offset ix (-1, no character, at the end).
Ch(re, ix) == IF ix < Len(re) THEN re[ix + 1] ELSE -1
\* re continues at ix with the characters written pre.
LooksAt(re, ix, pre) ==
    ix + Len(pre) <= Len(re) /\ SubSeq(re, ix + 1, ix + Len(pre)) = pre

POk(e, ix) == [k |-> "Ok", e |-> e, ix |-> ix]

IsDigitCh(c) == c >= 48 /\ c <= 57    \* '0' '9'
DigitVal(c) == c - 48    \* '0'

RECURSIVE ParseNum(_, _, _)
\* The decimal number at ix: its value (acc so far) and the offset after it.
ParseNum(re, ix, acc) ==
    IF IsDigitCh(Ch(re, ix)) THEN ParseNum(re, ix + 1, acc * 10 + DigitVal(Ch(re, ix)))
    ELSE [n |-> acc, ix |-> ix]

NoFlags == [i |-> FALSE, m |-> FALSE, s |-> FALSE, u |-> FALSE]

\* The repetition suffix at ix: [k |-> "Rep", lo, hi, ix], [k |-> "NoRep"] or Err.
parse_repeat(re, ix) ==
    LET c == Ch(re, ix)
    IN  CASE c = 63 -> [k |-> "Rep", lo |-> 0, hi |-> 1, ix |-> ix + 1]    \* '?'
          [] c = 42 -> [k |-> "Rep", lo |-> 0, hi |-> UsizeMax, ix |-> ix + 1]    \* '*'
          [] c = 43 -> [k |-> "Rep", lo |-> 1, hi |-> UsizeMax, ix |-> ix + 1]    \* '+'
          [] c = 123 ->    \* '{'
                LET n1 == ParseNum(re, ix + 1, 0)
                    n2 == ParseNum(re, n1.ix + 1, 0)
                IN  IF n1.ix = ix + 1 THEN Err("InvalidRepeat")
                    ELSE IF Ch(re, n1.ix) = 125    \* '}'
                    THEN [k |-> "Rep", lo |-> n1.n, hi |-> n1.n, ix |-> n1.ix + 1]
                    ELSE IF Ch(re, n1.ix) # 44 THEN Err("InvalidRepeat")    \* ','
                    ELSE IF Ch(re, n1.ix + 1) = 125    \* '}'
                    THEN [k |-> "Rep", lo |-> n1.n, hi |-> UsizeMax, ix |-> n1.ix + 2]
                    ELSE IF n2.ix = n1.ix + 1 \/ Ch(re, n2.ix) # 125 \/ n2.n < n1.n    \* '}'
                    THEN Err("InvalidRepeat")
                    ELSE [k |-> "Rep", lo |-> n1.n, hi |-> n2.n, ix |-> n2.ix + 1]
          [] OTHER -> [k |-> "NoRep"]

\* The escape at ix (re[ix] is the backslash).
parse_escape(re, ix, f) ==
    LET c == Ch(re, ix + 1)
        num == ParseNum(re, ix + 1, 0)
    IN  CASE c = -1 -> Err("TrailingBackslash")
          [] IsDigitCh(c) /\ c # 48 -> POk(Backref(num.n), num.ix)    \* '0'
          [] c \in {100, 119, 115, 68, 87, 83} -> POk(Delegate(<<92, c>>, 1, f.i), ix + 2)    \* '\\' "dwsDWS"
          [] c \in {98, 66} -> POk(Delegate(<<92, c>>, 0, f.i), ix + 2)    \* '\\' "bB"
          [] c \in {92, 46, 43, 42, 63, 40, 41, 124, 91, 93, 123, 125, 94, 36, 35} -> POk(Literal(<<c>>, f.i), ix + 2)    \* "\\.+*?()|[]{}^$#"
          [] OTHER -> Err("InvalidEscape")

RECURSIVE ClassEnd(_, _, _)
\* The offset after the ']' that closes the class whose text continues at
\* ix, nest brackets being open; -1 if it is not closed.
ClassEnd(re, ix, nest) ==
    LET c == Ch(re, ix)
    IN  CASE c = -1 -> -1
          [] c = 92 -> IF ix + 1 >= Len(re) THEN -1 ELSE ClassEnd(re, ix + 2, nest)    \* '\\'
          [] c = 91 -> ClassEnd(re, ix + 1, nest + 1)    \* '['
          [] c = 93 -> IF nest = 1 THEN ix + 1 ELSE ClassEnd(re, ix + 1, nest - 1)    \* ']'
          [] OTHER -> ClassEnd(re, ix + 1, nest)
\* The character class at ix (re[ix] is '['): a Delegate of one character
\* holding the text of the class.  A ']' right after '[' or '[^' is a member.
parse_class(re, ix, f) ==
    LET first == IF Ch(re, ix + 1) = 94 THEN ix + 2 ELSE ix + 1    \* '^'
        end == ClassEnd(re, IF Ch(re, first) = 93 THEN first + 1 ELSE first, 1)    \* ']'
    IN  IF end = -1 THEN Err("InvalidClass")
        ELSE POk(Delegate(SubSeq(re, ix + 1, end), 1, f.i), end)

\* The expression read up to a ')' and the offset after that ')'.
closed(re, inner) ==
    IF inner.k = "Err" THEN inner
    ELSE IF Ch(re, inner.ix) # 41 THEN Err("UnclosedOpenParen")    \* ')'
    ELSE POk(inner.e, inner.ix + 1)
\* The group of the given kind around the expression read.
group_of(kind, inner) ==
    IF inner.k = "Err" THEN inner
    ELSE POk(CASE kind = "Group" -> Group(inner.e)
               [] kind = "Atomic" -> AtomicGroup(inner.e)
               [] OTHER -> LookAround(inner.e, kind),
             inner.ix)
\* The atom read with its repetition, if any, and its non-greedy mark.
with_repeat(re, atom) ==
    IF atom.k = "Err" THEN atom
    ELSE LET rep == parse_repeat(re, atom.ix)
             greedy == Ch(re, rep.ix) # 63    \* '?'
         IN  IF rep.k = "Err" THEN rep
             ELSE IF rep.k = "NoRep" THEN atom
             ELSE POk(Repeat(atom.e, rep.lo, rep.hi, greedy),
                      IF greedy THEN rep.ix ELSE rep.ix + 1)

RECURSIVE parse_re(_, _, _, _), parse_re_rest(_, _, _, _), parse_alts(_, _, _, _, _),
          parse_alts_next(_, _, _, _, _), parse_branch(_, _, _, _, _),
          parse_branch_next(_, _, _, _, _), parse_piece(_, _, _, _),
          parse_atom(_, _, _, _), parse_group(_, _, _, _),
          parse_flags(_, _, _, _, _, _), parse_closed(_, _, _, _)
\* An alternation: branches separated by '|'.
parse_re(re, ix, depth, f) ==
    IF depth >= MAX_RECURSION THEN Err("RecursionExceeded")
    ELSE parse_re_rest(re, depth, f, parse_branch(re, ix, depth, f, <<>>))
\* After the first branch: the branch itself unless a '|' follows.
parse_re_rest(re, depth, f, first) ==
    IF first.k = "Err" THEN first
    ELSE IF Ch(re, first.ix) = 124    \* '|'
    THEN parse_alts(re, first.ix, depth, f, <<first.e>>)
    ELSE first
parse_alts(re, ix, depth, f, children) ==
    IF Ch(re, ix) = 124    \* '|'
    THEN parse_alts_next(re, depth, f, children, parse_branch(re, ix + 1, depth, f, <<>>))
    ELSE POk(Alt(children), ix)
parse_alts_next(re, depth, f, children, b) ==
    IF b.k = "Err" THEN b
    ELSE parse_alts(re, b.ix, depth, f, Append(children, b.e))
\* A branch: pieces up to '|', ')' or the end; an Empty piece is left out,
\* one piece is that piece, more are a Concat.
parse_branch(re, ix, depth, f, children) ==
    IF ix >= Len(re) \/ Ch(re, ix) \in {124, 41}    \* "|)"
    THEN POk(IF children = <<>> THEN Empty
             ELSE IF Len(children) = 1 THEN children[1]
             ELSE Concat(children), ix)
    ELSE parse_branch_next(re, depth, f, children, parse_piece(re, ix, depth, f))
parse_branch_next(re, depth, f, children, piece) ==
    IF piece.k = "Err" THEN piece
    ELSE parse_branch(re, piece.ix, depth, f,
                      IF piece.e.t = "Empty" THEN children ELSE Append(children, piece.e))
\* A piece: an atom and its repetition.
parse_piece(re, ix, depth, f) == with_repeat(re, parse_atom(re, ix, depth, f))
parse_atom(re, ix, depth, f) ==
    LET c == Ch(re, ix)
    IN  CASE c = 46 -> POk(ExprAny(f.s), ix + 1)    \* '.'
          [] c = 94 -> POk(IF f.m THEN StartLine ELSE StartText, ix + 1)    \* '^'
          [] c = 36 -> POk(IF f.m THEN EndLine ELSE EndText, ix + 1)    \* '$'
          [] c = 40 -> parse_group(re, ix, depth, f)    \* '('
          [] c = 92 -> parse_escape(re, ix, f)    \* '\\'
          [] c \in {63, 42, 43, 123} -> Err("InvalidRepeat")    \* "?*+{"
          [] c = 91 -> parse_class(re, ix, f)    \* '['
          [] OTHER -> POk(Literal(<<c>>, f.i), ix + 1)
\* The expression from ix up to the ')' that closes it.
parse_closed(re, ix, depth, f) == closed(re, parse_re(re, ix, depth + 1, f))
parse_group(re, ix, depth, f) ==
    LET look == CASE LooksAt(re, ix, <<40, 63, 61>>) -> [kind |-> "LookAhead", n |-> 3]    \* "(?="
                  [] LooksAt(re, ix, <<40, 63, 33>>) -> [kind |-> "LookAheadNeg", n |-> 3]    \* "(?!"
                  [] LooksAt(re, ix, <<40, 63, 60, 61>>) -> [kind |-> "LookBehind", n |-> 4]    \* "(?<="
                  [] LooksAt(re, ix, <<40, 63, 60, 33>>) -> [kind |-> "LookBehindNeg", n |-> 4]    \* "(?<!"
                  [] LooksAt(re, ix, <<40, 63, 62>>) -> [kind |-> "Atomic", n |-> 3]    \* "(?>"
                  [] LooksAt(re, ix, <<40, 63>>) -> [kind |-> "Flags", n |-> 2]    \* "(?"
                  [] OTHER -> [kind |-> "Group", n |-> 1]
    IN  IF look.kind = "Flags" THEN parse_flags(re, ix + 2, depth, f, FALSE, ix + 2)
        ELSE group_of(look.kind, parse_closed(re, ix + look.n, depth, f))
\* The flags after "(?": up to ':' they hold inside the group, up to ')' for
\* the rest of the enclosing expression.
parse_flags(re, ix, depth, f, neg, start) ==
    LET c == Ch(re, ix)
    IN  CASE c = 58 -> parse_closed(re, ix + 1, depth, f)    \* ':'
          [] c = 41 ->    \* ')'
                IF ix = start THEN Err("UnknownFlag")
                ELSE parse_re(re, ix + 1, depth + 1, f)
          [] c = 45 -> parse_flags(re, ix + 1, depth, f, TRUE, start)    \* '-'
          [] c = 105 -> parse_flags(re, ix + 1, depth, [f EXCEPT !.i = ~neg], neg, start)    \* 'i'
          [] c = 109 -> parse_flags(re, ix + 1, depth, [f EXCEPT !.m = ~neg], neg, start)    \* 'm'
          [] c = 115 -> parse_flags(re, ix + 1, depth, [f EXCEPT !.s = ~neg], neg, start)    \* 's'
          [] c = 117 ->    \* 'u'
                IF neg THEN Err("NonUnicodeUnsupported")
                ELSE parse_flags(re, ix + 1, depth, [f EXCEPT !.u = TRUE], neg, start)
          [] c = -1 -> Err("UnclosedOpenParen")
          [] OTHER -> Err("UnknownFlag")

\* Expr::parse (Parser::parse): Ok(AST) of the whole of re, or Err.
Parse(re) ==
    LET r == parse_re(re, 0, 0, NoFlags)
    IN  IF r.k = "Err" THEN r
        ELSE IF r.ix < Len(re) THEN Err("ParseError")
        ELSE Ok(r.e)

(***************************************************************************)
(* Expr::to_str (lib.rs)                                                   *)
(***************************************************************************)
\* The nine decimal digits of n < 10^9, with leading zeros.
Pad9(n) == [i \in 1..9 |-> 48 + ((n \div (10 ^ (9 - i))) % 10)]    \* '0'
\* The decimal digits of 2^64 + x for x < 0 from low = 709551616 + x, as
\* 2^64 = 18 * 10^18 + 446744073 * 10^9 + 709551616: what is missing in the
\* last nine digits is borrowed from the nine before.
Borrow(low) == IF low >= 0 THEN 0 ELSE IF low >= -1000000000 THEN 1 ELSE 2
UpperHalfDigits(low) ==
    <<49, 56>> \o Pad9(446744073 - Borrow(low))    \* "18"
               \o Pad9(low + Borrow(low) * 1000000000)
RECURSIVE push_usize(_)
\* push_usize: the decimal digits of x (of 2^64 + x for a value of the upper
\* half of usize, held as x < 0).
push_usize(x) ==
    IF x < 0 THEN UpperHalfDigits(709551616 + x)
    ELSE IF x >= 10 THEN push_usize(x \div 10) \o <<48 + (x % 10)>>    \* '0'
    ELSE <<48 + x>>    \* '0'

\* The characters push_quoted writes a backslash before.
Quoted == {92, 46, 43, 42, 63, 40, 41, 124, 91, 93, 123, 125, 94, 36, 35}    \* "\\.+*?()|[]{}^$#"

RECURSIVE push_quoted_unescaped(_)
\* push_quoted that writes the characters as they are.
push_quoted_unescaped(s) ==
    IF s = <<>> THEN <<>>
    ELSE <<Head(s)>> \o push_quoted_unescaped(Tail(s))

RECURSIVE push_quoted(_)
\* push_quoted: s with a backslash before every special character.
push_quoted(s) ==
    IF s = <<>> THEN <<>>
    ELSE (IF Head(s) \in Quoted THEN <<92>> ELSE <<>>) \o <<Head(s)>>    \* "\\"
             \o push_quoted(Tail(s))

RECURSIVE to_str(_, _), to_str_seq(_, _), to_str_alt(_, _)
\* What e.to_str(buf, precedence) appends to buf.
to_str(e, precedence) ==
    CASE e.t = "Empty" -> <<>>
      [] e.t = "Any" -> IF e.newline THEN <<40, 63, 115, 58, 46, 41>> ELSE <<46>>    \* "(?s:.)" "."
      [] e.t = "Literal" ->
            (IF e.casei THEN <<40, 63, 105, 58>> ELSE <<>>) \o push_quoted(e.val)    \* "(?i:"
                \o (IF e.casei THEN <<41>> ELSE <<>>)    \* ")"
      [] e.t = "StartText" -> <<94>>    \* "^"
      [] e.t = "EndText" -> <<36>>    \* "$"
      [] e.t = "StartLine" -> <<40, 63, 109, 58, 94, 41>>    \* "(?m:^)"
      [] e.t = "EndLine" -> <<40, 63, 109, 58, 36, 41>>    \* "(?m:$)"
      [] e.t = "Concat" ->
            (IF precedence > 1 THEN <<40, 63, 58>> ELSE <<>>) \o to_str_seq(e.children, 2)    \* "(?:"
                \o (IF precedence > 1 THEN <<41>> ELSE <<>>)    \* ")"
      [] e.t = "Alt" ->
            LET contains_empty == \E i \in DOMAIN e.children : e.children[i] = Empty
                kept == SelectSeq(e.children, LAMBDA c : c # Empty)
            IN  (IF precedence > 0 THEN <<40, 63, 58>> ELSE <<>>)    \* "(?:"
                    \o (IF contains_empty THEN <<40, 63, 58>> ELSE <<>>)    \* "(?:"
                    \o to_str_alt(kept, 0)
                    \o (IF contains_empty THEN <<41, 63>> ELSE <<>>)    \* ")?"
                    \o (IF precedence > 0 THEN <<41>> ELSE <<>>)    \* ")"
      [] e.t = "Group" -> <<40>> \o to_str(e.child, 0) \o <<41>>    \* "(" ")"
      [] e.t = "Repeat" ->
            (IF precedence > 2 THEN <<40, 63, 58>> ELSE <<>>)    \* "(?:"
                \o to_str(e.child, 3) \o <<123>> \o push_usize(e.lo) \o <<44>>    \* "{" ","
                \o (IF e.hi # UsizeMax THEN push_usize(e.hi) ELSE <<>>) \o <<125>>    \* "}"
                \o (IF ~e.greedy THEN <<63>> ELSE <<>>)    \* "?"
                \o (IF precedence > 2 THEN <<41>> ELSE <<>>)    \* ")"
      [] e.t = "Delegate" ->
            (IF e.casei THEN <<40, 63, 105, 58>> ELSE <<>>) \o e.inner    \* "(?i:"
                \o (IF e.casei THEN <<41>> ELSE <<>>)    \* ")"
      [] OTHER -> Str("<panic: attempting to format hard expr>")
to_str_seq(children, precedence) ==
    IF children = <<>> THEN <<>>
    ELSE to_str(Head(children), precedence) \o to_str_seq(Tail(children), precedence)
\* The non-empty alternatives, a '|' before each but the first (index i).
to_str_alt(children, i) ==
    IF children = <<>> THEN <<>>
    ELSE (IF i # 0 THEN <<124>> ELSE <<>>) \o to_str(Head(children), 1)    \* "|"
             \o to_str_alt(Tail(children), i + 1)

RECURSIVE ToStrPanics(_)
\* e.to_str reaches its last arm, panic!("attempting to format hard expr").
ToStrPanics(e) ==
    CASE e.t \in {"Concat", "Alt"} -> \E i \in DOMAIN e.children : ToStrPanics(e.children[i])
      [] e.t \in {"Group", "Repeat"} -> ToStrPanics(e.child)
      [] e.t \in {"Backref", "LookAround", "AtomicGroup"} -> TRUE
      [] OTHER -> FALSE

(***************************************************************************)
(* The linear engine (the regex crate): a pattern string compiled to a     *)
(* leftmost-first matcher without backtrack limit or stack budget.         *)
(***************************************************************************)
RECURSIVE HasEmptyAlt(_)
\* e has an alternation with an empty alternative.
HasEmptyAlt(e) ==
    CASE e.t = "Alt" ->
            \E i \in DOMAIN e.children :
                e.children[i] = Empty \/ HasEmptyAlt(e.children[i])
      [] e.t = "Concat" -> \E i \in DOMAIN e.children : HasEmptyAlt(e.children[i])
      [] e.t \in {"Group", "Repeat", "LookAround", "AtomicGroup"} -> HasEmptyAlt(e.child)
      [] OTHER -> FALSE

\* What the linear engine accepts of a parse: the same syntax without
\* look-around, backreferences and atomic groups, and without empty
\* alternatives (the regex crate "fails with (a|b|)", lib.rs 718).
LinearAccepts(parsed) ==
    IF parsed.k = "Err" THEN Err("InnerError")
    ELSE IF Hard(parsed.v) \/ HasEmptyAlt(parsed.v) THEN Err("InnerError")
    ELSE parsed
\* The linear engine's parse.
LinearParse(re) == LinearAccepts(Parse(re))

LinearOpts == [limit |-> NoLimit, max_stack |-> UsizeMax]

\* The compiled regex of a program within size_limit.
WithinSizeLimit(re, size_limit, prog) ==
    IF UsizeLt(size_limit, Len(prog.body)) THEN Err("InnerError")
    ELSE Ok([re |-> re, prog |-> prog])
\* The compiled regex of a parsed pattern, its program having group 0 for the
\* whole match.
CompileParsed(re, size_limit, parsed) ==
    IF parsed.k = "Err" THEN Err("InnerError")
    ELSE WithinSizeLimit(re, size_limit, CompileProg(WrapExpr(parsed.v)))
\* compile::compile_inner_with_size_limit: the compiled regex (its pattern
\* and its program), or InnerError when the pattern does not parse or the
\* program is larger than size_limit.
compile_inner_with_size_limit(re, size_limit) ==
    CompileParsed(re, size_limit, LinearParse(re))

\* regex::Regex::captures: None, or the group spans as a save array.
LinearCaptures(re, text) ==
    LET r == VmRun(re.prog, text, 0, LinearOpts)
    IN  IF r.k = "Some" THEN Some(r.saves) ELSE None
\* regex::Captures::len
LinearCapturesLen(caps) == Len(caps) \div 2
\* regex::Captures::get
LinearCapturesGet(caps, i) ==
    IF ~UsizeLt(i, LinearCapturesLen(caps)) \/ caps[2 * i + 1] = UsizeMax THEN None
    ELSE Some([start |-> caps[2 * i + 1], end |-> caps[2 * i + 2]])
\* regex::Regex::find
LinearFind(re, text) ==
    LET c == LinearCaptures(re, text)
    IN  IF c.k = "Some" THEN LinearCapturesGet(c.v, 0) ELSE None
\* regex::Regex::is_match
LinearIsMatch(re, text) == LinearFind(re, text).k = "Some"

(***************************************************************************)
(* Regex (lib.rs)                                                          *)
(***************************************************************************)
DEFAULT_SIZE_LIMIT == 10485760

\* The first child of the wrapper, the repetition of Any.
inner_info_first_child(e) == e.children[1]

\* inner_info = &info.children[1].children[0]: within the wrapper, the
\* user's expression under the group.
inner_info(e) == e.children[2].child

\* The Wrap variant of the two compiled regexes.
WrapOf(re, raw_e, inner, inner1) ==
    IF inner.k = "Err" THEN inner
    ELSE IF inner1.k = "Err" THEN inner1
    ELSE Ok([variant |-> "Wrap",
             inner |-> inner.v,
             inner1 |-> IF LooksLeft(raw_e) THEN Some(inner1.v) ELSE None,
             original |-> re])
\* The regex of the cooked pattern and that of the pattern for a search from
\* a position, compiled only if the expression looks left.
WrapCooked(re, raw_e, size_limit, re_cooked, inner) ==
    WrapOf(re, raw_e, inner,
           IF LooksLeft(raw_e)
           THEN compile_inner_with_size_limit(<<94, 40, 63, 115, 58, 46, 41, 43, 63, 40>> \o re_cooked \o <<41>>, size_limit)    \* "^(?s:.)+?(" ")"
           ELSE inner)
\* The regex of a parsed pattern.
NewOfParsed(re, size_limit, parsed) ==
    IF parsed.k = "Err" THEN parsed
    ELSE
    LET raw_e == parsed.v
        e == WrapExpr(raw_e)
    IN  IF InvalidBackrefFrom(e, 0) THEN Err("InvalidBackref")
        ELSE IF ~Hard(inner_info(e))
        THEN IF ToStrPanics(raw_e) THEN Panic
             ELSE WrapCooked(re, raw_e, size_limit, to_str(raw_e, 0),
                             compile_inner_with_size_limit(to_str(raw_e, 0), size_limit))
        ELSE IF LookBehindNotConst(e) THEN Err("LookBehindNotConst")
        ELSE Ok([variant |-> "Impl",
                 prog |-> CompileProg(e),
                 n_groups |-> NGroups(e),
                 original |-> re])

\* Regex::new_with_size_limit
new_with_size_limit(re, size_limit) == NewOfParsed(re, size_limit, Parse(re))

\* Regex::new
RegexNew(re) == new_with_size_limit(re, DEFAULT_SIZE_LIMIT)

\* The call vm::run(prog, text, pos, 0) of the match operations: Regex::Impl
\* holds no backtrack limit and the call hands none to the VM.
vm_run(prog, text, pos) == VmRun(prog, text, pos, [limit |-> NoLimit, max_stack |-> MaxStack])

\* Match::new
MatchNew(text, start, end) == [text |-> text, start |-> start, end |-> end]
\* Match::as_str: &text[start..end], a panic unless start <= end <= len(text)
\* with both on code-point boundaries.
as_str(m) ==
    IF \/ UsizeLt(m.end, m.start) \/ UsizeLt(Len(m.text), m.end)
       \/ ~IsCharBoundary(m.text, m.start) \/ ~IsCharBoundary(m.text, m.end)
    THEN Panic
    ELSE SubSeq(m.text, m.start + 1, m.end)

\* is_match with is_none() for is_some() on the result of the VM.
is_match_is_none(regex, text) ==
    IF regex.variant = "Wrap" THEN Ok(LinearIsMatch(regex.inner, text))
    ELSE LET result == vm_run(regex.prog, text, 0)
         IN  IF result.k = "Err" THEN Err(result.err)
             ELSE Ok(result.k = "None")

\* Regex::is_match
is_match(regex, text) ==
    IF regex.variant = "Wrap" THEN Ok(LinearIsMatch(regex.inner, text))
    ELSE LET result == vm_run(regex.prog, text, 0)
         IN  IF result.k = "Err" THEN Err(result.err)
             ELSE Ok(result.k = "Some")

\* Regex::find
find(regex, text) ==
    IF regex.variant = "Wrap"
    THEN LET m == LinearFind(regex.inner, text)
         IN  Ok(IF m.k = "Some" THEN Some(MatchNew(text, m.v.start, m.v.end)) ELSE None)
    ELSE LET result == vm_run(regex.prog, text, 0)
         IN  IF result.k = "Err" THEN Err(result.err)
             ELSE Ok(IF result.k = "Some"
                     THEN Some(MatchNew(text, result.saves[1], result.saves[2]))
                     ELSE None)

CapturesWrap(text, inner, offset, enclosing_groups) ==
    [variant |-> "Wrap", text |-> text, inner |-> inner, offset |-> offset,
     enclosing_groups |-> enclosing_groups]
CapturesImpl(text, saves) == [variant |-> "Impl", text |-> text, saves |-> saves]

\* saves.truncate(n)
Truncate(saves, n) == SubSeq(saves, 1, IF n < Len(saves) THEN n ELSE Len(saves))

\* Regex::captures
captures(regex, text) ==
    IF regex.variant = "Wrap"
    THEN LET caps == LinearCaptures(regex.inner, text)
         IN  Ok(IF caps.k = "Some" THEN Some(CapturesWrap(text, caps.v, 0, 0)) ELSE None)
    ELSE LET result == vm_run(regex.prog, text, 0)
         IN  IF result.k = "Err" THEN Err(result.err)
             ELSE Ok(IF result.k = "Some"
                     THEN Some(CapturesImpl(text, Truncate(result.saves, regex.n_groups * 2)))
                     ELSE None)

RECURSIVE prev_codepoint_ix_lead_bytes_only(_, _)
\* prev_codepoint_ix that stops at the lead byte of a multi-byte code point
\* only (the byte compared unsigned with 0xc0), so that it walks over ASCII.
prev_codepoint_ix_lead_bytes_only(s, ix) ==
    IF ix = 0 \/ UsizeLt(Len(s), ix) THEN -1
    ELSE IF s[ix] >= 192 THEN ix - 1
    ELSE prev_codepoint_ix_lead_bytes_only(s, ix - 1)

RECURSIVE prev_codepoint_ix(_, _)
\* prev_codepoint_ix, or -1 where the code panics: from 0 `ix -= 1` is an
\* arithmetic underflow (a panic with overflow checks, usize::MAX without,
\* where bytes[ix] panics), and beyond the end of s (up to usize::MAX)
\* bytes[ix] is an index out of bounds.
prev_codepoint_ix(s, ix) ==
    IF ix = 0 \/ UsizeLt(Len(s), ix) THEN -1
    ELSE IF AsI8(s[ix]) >= -64 THEN ix - 1
    ELSE prev_codepoint_ix(s, ix - 1)

\* captures_from_pos without the test pos == 0 before the step back.
captures_from_pos_steps_back_at_0(regex, text, pos) ==
    IF regex.variant = "Wrap"
    THEN IF regex.inner1 = None
         THEN LET caps == LinearCaptures(regex.inner, SliceFrom(text, pos))
              IN  IF SlicePanics(text, pos) THEN Panic
                  ELSE Ok(IF caps.k = "Some" THEN Some(CapturesWrap(text, caps.v, pos, 0))
                          ELSE None)
         ELSE LET ix == prev_codepoint_ix(text, pos)
                  inner1 == regex.inner1.v
                  caps == LinearCaptures(inner1, SliceFrom(text, ix))
              IN  IF ix < 0 THEN Panic
                  ELSE Ok(IF caps.k = "Some" THEN Some(CapturesWrap(text, caps.v, ix, 1))
                          ELSE None)
    ELSE LET result == vm_run(regex.prog, text, pos)
         IN  IF result.k = "Err" THEN Err(result.err)
             ELSE Ok(IF result.k = "Some"
                     THEN Some(CapturesImpl(text, Truncate(result.saves, regex.n_groups * 2)))
                     ELSE None)

\* captures_from_pos that reports the spans of inner1 relative to pos instead
\* of the stepped-back offset.
captures_from_pos_offset_pos(regex, text, pos) ==
    IF regex.variant = "Wrap"
    THEN IF regex.inner1 = None \/ pos = 0
         THEN LET caps == LinearCaptures(regex.inner, SliceFrom(text, pos))
              IN  IF SlicePanics(text, pos) THEN Panic
                  ELSE Ok(IF caps.k = "Some" THEN Some(CapturesWrap(text, caps.v, pos, 0))
                          ELSE None)
         ELSE LET ix == prev_codepoint_ix(text, pos)
                  inner1 == regex.inner1.v
                  caps == LinearCaptures(inner1, SliceFrom(text, ix))
              IN  IF ix < 0 THEN Panic
                  ELSE Ok(IF caps.k = "Some" THEN Some(CapturesWrap(text, caps.v, pos, 1))
                          ELSE None)
    ELSE LET result == vm_run(regex.prog, text, pos)
         IN  IF result.k = "Err" THEN Err(result.err)
             ELSE Ok(IF result.k = "Some"
                     THEN Some(CapturesImpl(text, Truncate(result.saves, regex.n_groups * 2)))
                     ELSE None)

\* captures_from_pos with `&&` for `||` in the choice of the engine: inner1 is
\* unwrapped where there is none, and pos 0 is stepped back.
captures_from_pos_and_for_or(regex, text, pos) ==
    IF regex.variant = "Wrap"
    THEN IF regex.inner1 = None /\ pos = 0
         THEN LET caps == LinearCaptures(regex.inner, SliceFrom(text, pos))
              IN  IF SlicePanics(text, pos) THEN Panic
                  ELSE Ok(IF caps.k = "Some" THEN Some(CapturesWrap(text, caps.v, pos, 0))
                          ELSE None)
         ELSE IF regex.inner1 = None THEN Panic
         ELSE LET ix == prev_codepoint_ix(text, pos)
                  inner1 == regex.inner1.v
                  caps == LinearCaptures(inner1, SliceFrom(text, ix))
              IN  IF ix < 0 THEN Panic
                  ELSE Ok(IF caps.k = "Some" THEN Some(CapturesWrap(text, caps.v, ix, 1))
                          ELSE None)
    ELSE LET result == vm_run(regex.prog, text, pos)
         IN  IF result.k = "Err" THEN Err(result.err)
             ELSE Ok(IF result.k = "Some"
                     THEN Some(CapturesImpl(text, Truncate(result.saves, regex.n_groups * 2)))
                     ELSE None)

\* captures_from_pos that never uses inner1: the linear engine sees text[pos..]
\* only.
captures_from_pos_slice_only(regex, text, pos) ==
    IF regex.variant = "Wrap"
    THEN LET caps == LinearCaptures(regex.inner, SliceFrom(text, pos))
         IN  IF SlicePanics(text, pos) THEN Panic
             ELSE Ok(IF caps.k = "Some" THEN Some(CapturesWrap(text, caps.v, pos, 0))
                     ELSE None)
    ELSE LET result == vm_run(regex.prog, text, pos)
         IN  IF result.k = "Err" THEN Err(result.err)
             ELSE Ok(IF result.k = "Some"
                     THEN Some(CapturesImpl(text, Truncate(result.saves, regex.n_groups * 2)))
                     ELSE None)

\* Regex::captures_from_pos
captures_from_pos(regex, text, pos) ==
    IF regex.variant = "Wrap"
    THEN IF regex.inner1 = None \/ pos = 0
         THEN LET caps == LinearCaptures(regex.inner, SliceFrom(text, pos))
              IN  IF SlicePanics(text, pos) THEN Panic
                  ELSE Ok(IF caps.k = "Some" THEN Some(CapturesWrap(text, caps.v, pos, 0))
                          ELSE None)
         ELSE LET ix == prev_codepoint_ix(text, pos)
                  inner1 == regex.inner1.v
                  caps == LinearCaptures(inner1, SliceFrom(text, ix))
              IN  IF ix < 0 THEN Panic
                  ELSE Ok(IF caps.k = "Some" THEN Some(CapturesWrap(text, caps.v, ix, 1))
                          ELSE None)
    ELSE LET result == vm_run(regex.prog, text, pos)
         IN  IF result.k = "Err" THEN Err(result.err)
             ELSE Ok(IF result.k = "Some"
                     THEN Some(CapturesImpl(text, Truncate(result.saves, regex.n_groups * 2)))
                     ELSE None)

(***************************************************************************)
(* Captures and SubCaptureMatches (lib.rs)                                 *)
(***************************************************************************)
\* a + b of usize values is beyond usize::MAX: never of two values of the
\* lower half, always of two of the upper half (held as numbers below 0),
\* and of one of each when the sum passes 2^64.
AddOverflows(a, b) ==
    IF a >= 0 /\ b >= 0 THEN FALSE
    ELSE IF a < 0 /\ b < 0 THEN TRUE
    ELSE a + b >= 0

\* The Match of Captures::get on Wrap: the span of the linear engine moved
\* by offset.
WrapMatch(caps, m, overflow_checks) ==
    IF m.k = "None" THEN None
    ELSE IF /\ overflow_checks
            /\ \/ AddOverflows(m.v.start, caps.offset)
               \/ AddOverflows(m.v.end, caps.offset)
    THEN Panic
    ELSE Some(MatchNew(caps.text, m.v.start + caps.offset, m.v.end + caps.offset))

\* Captures::get.  An arithmetic overflow (of i + enclosing_groups, of
\* m.start() + offset) is a panic in a build with overflow checks (debug)
\* and wraps in a build without (release); saves[i * 2] and saves[i * 2 + 1]
\* beyond the end of saves are panics.
CapturesGet(caps, i, overflow_checks) ==
    IF caps.variant = "Wrap"
    THEN IF AddOverflows(i, caps.enclosing_groups) /\ overflow_checks THEN Panic
         ELSE WrapMatch(caps, LinearCapturesGet(caps.inner, i + caps.enclosing_groups),
                        overflow_checks)
    ELSE IF ~UsizeLt(i, Len(caps.saves)) THEN None
    ELSE IF i * 2 >= Len(caps.saves) THEN Panic
    ELSE IF caps.saves[i * 2 + 1] = UsizeMax THEN None
    ELSE IF i * 2 + 1 >= Len(caps.saves) THEN Panic
    ELSE Some(MatchNew(caps.text, caps.saves[i * 2 + 1], caps.saves[i * 2 + 2]))

\* inner.len() - enclosing_groups is below 0.
LenUnderflows(caps) ==
    /\ caps.variant = "Wrap"
    /\ UsizeLt(LinearCapturesLen(caps.inner), caps.enclosing_groups)

\* len() that counts the enclosing group of inner1.
CapturesLenOfLinear(caps, overflow_checks) ==
    IF caps.variant = "Wrap"
    THEN LinearCapturesLen(caps.inner)
    ELSE Len(caps.saves) \div 2

\* Captures::len.  inner.len() - enclosing_groups below 0 is a panic in a
\* build with overflow checks and wraps in a build without.
CapturesLen(caps, overflow_checks) ==
    IF caps.variant = "Wrap"
    THEN IF LenUnderflows(caps) /\ overflow_checks THEN Panic
         ELSE LinearCapturesLen(caps.inner) - caps.enclosing_groups
    ELSE Len(caps.saves) \div 2

\* Captures::iter
CapturesIter(caps) == [i |-> 0]

\* next() that goes one index too far.
SubCaptureMatchesNextOneMore(caps, it, overflow_checks) ==
    IF LenUnderflows(caps) /\ overflow_checks THEN Panic
    ELSE IF ~UsizeLt(CapturesLen(caps, overflow_checks), it.i)
    THEN IF CapturesGet(caps, it.i, overflow_checks) = Panic THEN Panic
         ELSE [item |-> Some(CapturesGet(caps, it.i, overflow_checks)),
               it |-> [it EXCEPT !.i = @ + 1]]
    ELSE [item |-> None, it |-> it]

\* SubCaptureMatches::next: the item returned and the iterator afterwards.
\* get is called before the index is advanced, so that a panic of len or of
\* get is the panic of next and leaves the index where it was.
SubCaptureMatchesNext(caps, it, overflow_checks) ==
    IF LenUnderflows(caps) /\ overflow_checks THEN Panic
    ELSE IF UsizeLt(it.i, CapturesLen(caps, overflow_checks))
    THEN IF CapturesGet(caps, it.i, overflow_checks) = Panic THEN Panic
         ELSE [item |-> Some(CapturesGet(caps, it.i, overflow_checks)),
               it |-> [it EXCEPT !.i = @ + 1]]
    ELSE [item |-> None, it |-> it]

(***************************************************************************)
(* RegexBuilder (lib.rs)                                                   *)
(***************************************************************************)
\* RegexBuilder::new
RegexBuilderNew(pattern) ==
    [pattern |-> pattern, case_insensitive |-> FALSE, multi_line |-> FALSE,
     dot_matches_new_line |-> FALSE, unicode |-> FALSE, has_flags |-> FALSE,
     size_limit |-> DEFAULT_SIZE_LIMIT]

\* RegexBuilder::case_insensitive
SetCaseInsensitive(b, value) ==
    [b EXCEPT !.case_insensitive = value, !.has_flags = IF value THEN TRUE ELSE @]
\* RegexBuilder::multi_line
SetMultiLine(b, value) ==
    [b EXCEPT !.multi_line = value, !.has_flags = IF value THEN TRUE ELSE @]
\* RegexBuilder::dot_matches_new_line
SetDotMatchesNewLine(b, value) ==
    [b EXCEPT !.dot_matches_new_line = value, !.has_flags = IF value THEN TRUE ELSE @]
\* RegexBuilder::unicode
SetUnicode(b, value) ==
    [b EXCEPT !.unicode = value, !.has_flags = IF value THEN TRUE ELSE @]
\* RegexBuilder::size_limit
SetSizeLimit(b, value) == [b EXCEPT !.size_limit = value]

\* The pattern RegexBuilder::build hands to Regex::new_with_size_limit.
BuildPattern(b) ==
    IF b.has_flags
    THEN LET flags == (IF b.case_insensitive THEN <<105>> ELSE <<>>)    \* "i"
                          \o (IF b.multi_line THEN <<109>> ELSE <<>>)    \* "m"
                          \o (IF b.dot_matches_new_line THEN <<115>> ELSE <<>>)    \* "s"
                          \o (IF b.unicode THEN <<117>> ELSE <<>>)    \* "u"
         IN  <<40, 63>> \o flags \o <<41>> \o b.pattern    \* "(?" ")"
    ELSE b.pattern

\* RegexBuilder::build
Build(b) == new_with_size_limit(BuildPattern(b), b.size_limit)

(***************************************************************************)
(* Inputs                                                                  *)
(***************************************************************************)
Texts ==
    { <<>>,
      <<102, 111, 111, 33, 32, 98, 97, 114, 46>>,     \* "foo! bar."
      <<102, 111, 111, 32, 98, 97, 114, 46>>,         \* "foo bar."
      <<49, 49, 32, 50, 49, 32, 51, 51>>,             \* "11 21 33"
      <<102, 111, 111, 32, 102, 111, 111>>,           \* "foo foo"
      <<102, 111, 111, 32, 98, 97, 114>>,             \* "foo bar"
      <<97, 120>>,                                    \* "ax"
      <<46, 120>>,                                    \* ".x"
      <<97, 97>>,                                     \* "aa"
      <<98, 98>>,                                     \* "bb"
      <<195, 169, 46, 120>>,                          \* "\u{e9}.x"
      <<49, 32, 49, 50, 10, 50>>,                     \* "1 12\n2"
      <<97, 97, 97, 97, 97, 97, 97, 97, 97, 97, 97, 97, 97, 97>> }  \* "a" x 14

\* The compiled regexes of the model.
Regexes == {RegexNew(p).v : p \in Patterns}

\* Start positions of captures_from_pos: every offset up to one beyond the
\* end of text, on a code-point boundary or not.
Positions(text) == 0..(Len(text) + 1)

\* The patterns, flag values and size limits RegexBuilder is driven with.
BuilderPatterns == {Str("\\d+"), Str("\\b(\\w)"), Str("(\\d+)\\1")}
SizeLimits == {0, DEFAULT_SIZE_LIMIT, UsizeMax}

\* The largest group index Captures::get is asked for, besides usize::MAX.
MaxIndex == 7
\* The number of next() calls followed after the iterator is exhausted.
MaxExtraNext == 2

(***************************************************************************)
(* The state machine                                                       *)
(***************************************************************************)
VARIABLES
    regex,        \* the compiled Regex
    text,         \* the input text
    r_is_match,   \* the result of is_match(text), or NotCalled
    r_find,       \* the result of find(text), or NotCalled
    r_captures,   \* the result of captures(text), or NotCalled
    r_from_pos,   \* the result of captures_from_pos(text, pos), or NotCalled
    caps,         \* a Captures the caller holds (None: none)
    got,          \* the last Captures::get call on caps, or NotCalled
    iter,         \* a SubCaptureMatches on caps with what it has yielded, or NotCalled
    builder,      \* a RegexBuilder
    built,        \* the last RegexBuilder::build call, or NotCalled
    applied       \* the last call of a function on its own, or NotCalled

vars == <<regex, text, r_is_match, r_find, r_captures, r_from_pos, caps, got, iter,
          builder, built, applied>>
matchVars == <<regex, text, r_is_match, r_find, r_captures, r_from_pos>>
capsVars == <<caps, got, iter>>
builderVars == <<builder, built>>

Called(res) == [k |-> "Called", res |-> res]

\* ---- the match operations on a compiled regex
InitMatch ==
    /\ regex \in Regexes
    /\ text \in Texts
    /\ r_is_match = NotCalled
    /\ r_find = NotCalled
    /\ r_captures = NotCalled
    /\ r_from_pos = NotCalled

InitNoCaps == caps = None /\ got = NotCalled /\ iter = NotCalled
InitNoBuilder == builder = RegexBuilderNew(Str("\\d+")) /\ built = NotCalled

InitNoApplied == applied = NotCalled

Init == InitMatch /\ InitNoCaps /\ InitNoBuilder /\ InitNoApplied

IsMatch ==
    /\ r_is_match' = Called(is_match(regex, text))
    /\ UNCHANGED <<regex, text, r_find, r_captures, r_from_pos, capsVars, builderVars, applied>>

Find ==
    /\ r_find' = Called(find(regex, text))
    /\ UNCHANGED <<regex, text, r_is_match, r_captures, r_from_pos, capsVars, builderVars, applied>>

DoCaptures ==
    /\ r_captures' = Called(captures(regex, text))
    /\ UNCHANGED <<regex, text, r_is_match, r_find, r_from_pos, capsVars, builderVars, applied>>

CapturesFromPos ==
    \E pos \in Positions(text) :
        /\ r_from_pos' = [k |-> "Called", pos |-> pos,
                          res |-> captures_from_pos(regex, text, pos)]
        /\ UNCHANGED <<regex, text, r_is_match, r_find, r_captures, capsVars, builderVars, applied>>

Next == IsMatch \/ Find \/ DoCaptures \/ CapturesFromPos

Spec == Init /\ [][Next]_vars

(***************************************************************************)
(* Properties of the match operations                                      *)
(***************************************************************************)
IsCalled(r) == r.k = "Called"
IsOkSome(res) == res.k = "Ok" /\ res.v.k = "Some"
IsOkNone(res) == res.k = "Ok" /\ res.v.k = "None"
IsErr(res) == res.k = "Err"

\* The AST of the pattern the regex was compiled from, and its number of
\* capturing groups.
UserExpr(rx) == Parse(rx.original).v
UserGroups(rx) == NGroups(UserExpr(rx))

\* The span of a group as Captures::get reports it: <<start, end>>, or <<>>.
Span(m) == IF m.k = "Some" THEN <<m.v.start, m.v.end>> ELSE <<>>
Spans(c) == [i \in 0..(CapturesLen(c, TRUE) - 1) |-> Span(CapturesGet(c, i, TRUE))]

\* C1: is_match returns Ok(true) exactly when find returns Ok(Some) and exactly
\* when captures returns Ok(Some), and if one of the three returns an error all
\* three do.
C1_MatchOperationsAgree ==
    /\ (IsCalled(r_is_match) /\ IsCalled(r_find)) =>
          /\ (r_is_match.res.k = "Ok" /\ r_is_match.res.v) <=> IsOkSome(r_find.res)
          /\ IsErr(r_is_match.res) <=> IsErr(r_find.res)
    /\ (IsCalled(r_is_match) /\ IsCalled(r_captures)) =>
          /\ (r_is_match.res.k = "Ok" /\ r_is_match.res.v) <=> IsOkSome(r_captures.res)
          /\ IsErr(r_is_match.res) <=> IsErr(r_captures.res)
    /\ (IsCalled(r_find) /\ IsCalled(r_captures)) =>
          /\ IsOkSome(r_find.res) <=> IsOkSome(r_captures.res)
          /\ IsErr(r_find.res) <=> IsErr(r_captures.res)
    /\ IsCalled(r_is_match) => r_is_match.res.k \in {"Ok", "Err"}
    /\ IsCalled(r_find) => r_find.res.k \in {"Ok", "Err"}
    /\ IsCalled(r_captures) => r_captures.res.k \in {"Ok", "Err"}

\* A hard regex on which the three operations have been called and found a match.
C1_Witness ==
    /\ regex.variant = "Impl"
    /\ IsCalled(r_is_match) /\ r_is_match.res.k = "Ok" /\ r_is_match.res.v
    /\ IsCalled(r_find) /\ IsOkSome(r_find.res)
    /\ IsCalled(r_captures) /\ IsOkSome(r_captures.res)

\* Two results of captures / captures_from_pos are the same: the same error,
\* both None, or both Some with the same len() and the same get(i) for every i.
SameCaptures(a, b) ==
    /\ a.k = b.k
    /\ a.k = "Err" => a.err = b.err
    /\ a.k = "Ok" =>
          /\ a.v.k = b.v.k
          /\ a.v.k = "Some" =>
                /\ CapturesLen(a.v.v, TRUE) = CapturesLen(b.v.v, TRUE)
                /\ Spans(a.v.v) = Spans(b.v.v)

\* C3: captures_from_pos(T, 0) returns the same result as captures(T), on Wrap
\* with and without inner1 and on Impl.
C3_FromPosZeroIsCaptures ==
    (IsCalled(r_captures) /\ IsCalled(r_from_pos) /\ r_from_pos.pos = 0) =>
        /\ r_from_pos.res.k \in {"Ok", "Err"}
        /\ SameCaptures(r_captures.res, r_from_pos.res)

\* captures and captures_from_pos(text, 0) both found a match on a Wrap regex
\* that has an inner1.
C3_Witness ==
    /\ regex.variant = "Wrap" /\ regex.inner1 # None
    /\ IsCalled(r_captures) /\ IsOkSome(r_captures.res)
    /\ IsCalled(r_from_pos) /\ r_from_pos.pos = 0 /\ IsOkSome(r_from_pos.res)

\* The search for the user's expression in the full text from pos, every
\* assertion seeing the full text: the saves of the leftmost match (group 0
\* the whole match), or None.
SearchFrom(rx, t, pos) == VmRun(CompileProg(WrapExpr(UserExpr(rx))), t, pos, LinearOpts)
SaveSpans(saves) ==
    [i \in 0..((Len(saves) \div 2) - 1) |->
        IF saves[2 * i + 1] = UsizeMax THEN <<>> ELSE <<saves[2 * i + 1], saves[2 * i + 2]>>]

\* C4: on an easy pattern that looks left, captures_from_pos(text, pos) with
\* pos > 0 on a code-point boundary evaluates the left-looking assertions against the code point before
\* pos in the full text: it finds what the search in the full text from pos
\* finds (None for \b(\w) on "ax" from 1, "x" at [1,2) on ".x" from 1), and
\* every span it returns starts at or after pos and lies in the full text.
C4_LookLeftFromPos ==
    (/\ regex.variant = "Wrap" /\ regex.inner1 # None
     /\ IsCalled(r_from_pos) /\ r_from_pos.pos > 0
     /\ IsCharBoundary(text, r_from_pos.pos)) =>
        LET ref == SearchFrom(regex, text, r_from_pos.pos)
            res == r_from_pos.res
        IN  /\ res.k = "Ok"
            /\ (res.v.k = "None") <=> (ref.k = "None")
            /\ res.v.k = "Some" =>
                  /\ Spans(res.v.v) = SaveSpans(ref.saves)
                  /\ \A i \in DOMAIN Spans(res.v.v) :
                        LET sp == Spans(res.v.v)[i]
                        IN  sp # <<>> =>
                              r_from_pos.pos <= sp[1] /\ sp[1] <= sp[2] /\ sp[2] <= Len(text)
            /\ (regex.original = Str("\\b(\\w)") /\ text = <<97, 120>> /\ r_from_pos.pos = 1)
                  => res.v.k = "None"
            /\ (regex.original = Str("\\b(\\w)") /\ text = <<46, 120>> /\ r_from_pos.pos = 1)
                  => (res.v.k = "Some" /\ Spans(res.v.v) = (0 :> <<1, 2>> @@ 1 :> <<1, 2>>))

\* captures_from_pos(".x", 1) of \b(\w) has found its match through inner1.
C4_Witness ==
    /\ regex.variant = "Wrap" /\ regex.original = Str("\\b(\\w)") /\ text = <<46, 120>>
    /\ IsCalled(r_from_pos) /\ r_from_pos.pos = 1 /\ IsOkSome(r_from_pos.res)
    /\ r_from_pos.res.v.v.enclosing_groups = 1

\* What C5 says of one Captures c of the regex.
UserIndices(c) ==
    /\ CapturesLen(c, TRUE) = UserGroups(regex) + 1
    /\ CapturesGet(c, 0, TRUE).k = "Some"
    /\ \A i \in 1..(CapturesLen(c, TRUE) - 1) :
          LET m == CapturesGet(c, i, TRUE)
              whole == CapturesGet(c, 0, TRUE).v
          IN  m.k \in {"Some", "None"}
              /\ (m.k = "Some" => whole.start <= m.v.start /\ m.v.end <= whole.end)
    /\ (c.variant = "Wrap" /\ c.enclosing_groups = 1) =>
          /\ CapturesLen(c, TRUE) = LinearCapturesLen(c.inner) - 1
          /\ \A i \in 0..(CapturesLen(c, TRUE) - 1) :
                LET m == CapturesGet(c, i, TRUE)
                    l == LinearCapturesGet(c.inner, i + 1)
                IN  /\ m.k = l.k
                    /\ m.k = "Some" => (m.v.start = l.v.start + c.offset
                                        /\ m.v.end = l.v.end + c.offset)

\* C5: for a pattern with g capturing groups every Captures has len() = g + 1
\* and get(0) is the whole match (the span find returns; every set group lies
\* in it), whichever engine produced it; on the inner1 path get(i) is the
\* linear engine's group i + 1 and len() its group count minus 1.
C5_UserGroupIndices ==
    /\ (IsCalled(r_captures) /\ IsOkSome(r_captures.res)) =>
          /\ UserIndices(r_captures.res.v.v)
          /\ (IsCalled(r_find) /\ IsOkSome(r_find.res)) =>
                CapturesGet(r_captures.res.v.v, 0, TRUE) = r_find.res.v
    /\ (IsCalled(r_from_pos) /\ IsOkSome(r_from_pos.res)) =>
          UserIndices(r_from_pos.res.v.v)

\* A Captures produced through inner1 (enclosing_groups = 1).
C5_Witness ==
    /\ IsCalled(r_from_pos) /\ IsOkSome(r_from_pos.res)
    /\ r_from_pos.res.v.v.variant = "Wrap"
    /\ r_from_pos.res.v.v.enclosing_groups = 1
    /\ CapturesLen(r_from_pos.res.v.v, TRUE) = 2

\* What C7 says of one result of captures / captures_from_pos of
\* (\w+)(?=\.)|(\w+)(?=!): of the groups 1 and 2 exactly the one of the
\* alternative that matched is set, and it spans the match.
OneAlternative(res) ==
    IsOkSome(res) =>
        LET sp == Spans(res.v.v)
        IN  /\ DOMAIN sp = 0..2
            /\ sp[0] # <<>>
            /\ (sp[1] = <<>>) # (sp[2] = <<>>)
            /\ sp[1] # <<>> => sp[1] = sp[0]
            /\ sp[2] # <<>> => sp[2] = sp[0]

\* C7: a group that lies only in an alternative the VM tried and abandoned is
\* reported unset: for (\w+)(?=\.)|(\w+)(?=!) exactly one of the groups 1 and 2
\* is set in any match, and on "foo! bar." group 1 is None while group 0 and
\* group 2 are [0,3).
C7_AbandonedGroupUnset ==
    regex.original = Str("(\\w+)(?=\\.)|(\\w+)(?=!)") =>
        /\ IsCalled(r_captures) =>
              /\ OneAlternative(r_captures.res)
              /\ text = <<102, 111, 111, 33, 32, 98, 97, 114, 46>> =>
                    /\ IsOkSome(r_captures.res)
                    /\ Spans(r_captures.res.v.v) = (0 :> <<0, 3>> @@ 1 :> <<>> @@ 2 :> <<0, 3>>)
        /\ IsCalled(r_from_pos) => OneAlternative(r_from_pos.res)

\* captures of (\w+)(?=\.)|(\w+)(?=!) on "foo! bar." has returned its match.
C7_Witness ==
    /\ regex.original = Str("(\\w+)(?=\\.)|(\\w+)(?=!)")
    /\ text = <<102, 111, 111, 33, 32, 98, 97, 114, 46>>
    /\ IsCalled(r_captures) /\ IsOkSome(r_captures.res)
    /\ CapturesGet(r_captures.res.v.v, 1, TRUE) = None

\* The matches of (\d+)\1 in t from pos on, by definition: <<s, m>> where
\* t[s..m) is a run of digits and t[m..) starts with that same text.
DoubledDigits(t, pos) ==
    {sm \in (pos..Len(t)) \X (pos..Len(t)) :
        /\ sm[1] < sm[2]
        /\ \A k \in (sm[1] + 1)..sm[2] : IsDigitByte(t[k])
        /\ sm[2] + (sm[2] - sm[1]) <= Len(t)
        /\ \A k \in 1..(sm[2] - sm[1]) : t[sm[2] + k] = t[sm[1] + k]}

\* What C8 says of one result of (\d+)\1 searched from pos: there is a match
\* exactly when some digit run is followed by itself; the match is the
\* leftmost one with the longest such run, group 1 the run and group 0 the
\* run and its repetition.
DoubledResult(res, t, pos) ==
    LET D == DoubledDigits(t, pos)
    IN  /\ res.k = "Ok"
        /\ (res.v.k = "None") <=> (D = {})
        /\ res.v.k = "Some" =>
              LET s == Min({sm[1] : sm \in D})
                  m == CHOOSE x \in {sm[2] : sm \in {y \in D : y[1] = s}} :
                          \A sm \in D : sm[1] = s => sm[2] <= x
              IN  Spans(res.v.v) = (0 :> <<s, m + (m - s)>> @@ 1 :> <<s, m>>)

\* C8: a backreference matches exactly when the input at ip starts with the
\* text captured by the group, and advances ip by its length; on an unset
\* group it fails.  So (\d+)\1 finds the leftmost digit run followed by itself
\* ("33" at [6,8) with group 1 [6,7) in "11 21 33" from 3), ^(\w+) (\1)$
\* matches "foo foo" but not "foo bar", and (?:(a)|b)\1 never matches with
\* group 1 unset.
C8_Backreference ==
    /\ regex.original = Str("(\\d+)\\1") =>
          /\ IsCalled(r_captures) => DoubledResult(r_captures.res, text, 0)
          /\ IsCalled(r_from_pos) =>
                /\ DoubledResult(r_from_pos.res, text, r_from_pos.pos)
                /\ (text = <<49, 49, 32, 50, 49, 32, 51, 51>> /\ r_from_pos.pos = 3) =>
                      Spans(r_from_pos.res.v.v) = (0 :> <<6, 8>> @@ 1 :> <<6, 7>>)
    /\ (regex.original = Str("^(\\w+) (\\1)$") /\ IsCalled(r_is_match)) =>
          /\ text = <<102, 111, 111, 32, 102, 111, 111>> => r_is_match.res = Ok(TRUE)
          /\ text = <<102, 111, 111, 32, 98, 97, 114>> => r_is_match.res = Ok(FALSE)
    /\ (regex.original = Str("(?:(a)|b)\\1") /\ IsCalled(r_captures)) =>
          /\ r_captures.res.k = "Ok"
          /\ IsOkSome(r_captures.res) => Spans(r_captures.res.v.v)[1] # <<>>
          /\ text = <<98, 98>> => IsOkNone(r_captures.res)
          /\ text = <<97, 97>> => IsOkSome(r_captures.res)

\* captures_from_pos("11 21 33", 3) of (\d+)\1 has returned its match.
C8_Witness ==
    /\ regex.original = Str("(\\d+)\\1")
    /\ text = <<49, 49, 32, 50, 49, 32, 51, 51>>
    /\ IsCalled(r_from_pos) /\ r_from_pos.pos = 3 /\ IsOkSome(r_from_pos.res)

\* The least length of an input that counts as large.
LargeInput == 7

\* C10 (as claimed): the run of a match call on a hard pattern is cut by the
\* configured backtrack limit; with the limit 0 every match call on a hard
\* pattern and a large input returns Err(BacktrackLimitExceeded).
C10_BacktrackLimitZeroExceeded ==
    (regex.variant = "Impl" /\ Len(text) >= LargeInput) =>
        /\ IsCalled(r_is_match) => r_is_match.res = Err("BacktrackLimitExceeded")
        /\ IsCalled(r_find) => r_find.res = Err("BacktrackLimitExceeded")
        /\ IsCalled(r_captures) => r_captures.res = Err("BacktrackLimitExceeded")
        /\ IsCalled(r_from_pos) => r_from_pos.res = Err("BacktrackLimitExceeded")

\* C11 (as claimed): on the Wrap variant every match operation returns Ok;
\* an Err of a match operation comes from the Impl variant and is a run-time
\* error (StackOverflow or BacktrackLimitExceeded), never a compile-time one.
C11_ErrorsOnlyFromVm ==
    \A kind \in {"is_match", "find", "captures", "captures_from_pos"} :
        LET r == CASE kind = "is_match" -> r_is_match
                   [] kind = "find" -> r_find
                   [] kind = "captures" -> r_captures
                   [] kind = "captures_from_pos" -> r_from_pos
        IN  IsCalled(r) =>
                /\ regex.variant = "Wrap" => r.res.k = "Ok"
                /\ r.res.k = "Err" =>
                      /\ regex.variant = "Impl"
                      /\ r.res.err \in {"StackOverflow", "BacktrackLimitExceeded"}

\* C11 (amended): on the Wrap variant is_match, find and captures return Ok,
\* and so does captures_from_pos from a position on a code-point boundary of
\* the text; from another position it returns Ok or panics in the slice of
\* the text.  No match operation returns an Err on Wrap, and an Err is a
\* run-time error of the VM on Impl.
C11_OkFromBoundaries ==
    /\ \A kind \in {"is_match", "find", "captures"} :
          LET r == CASE kind = "is_match" -> r_is_match
                     [] kind = "find" -> r_find
                     [] kind = "captures" -> r_captures
          IN  IsCalled(r) =>
                  /\ r.res.k \in {"Ok", "Err"}
                  /\ regex.variant = "Wrap" => r.res.k = "Ok"
                  /\ r.res.k = "Err" =>
                        /\ regex.variant = "Impl"
                        /\ r.res.err \in {"StackOverflow", "BacktrackLimitExceeded"}
    /\ IsCalled(r_from_pos) =>
          /\ r_from_pos.res.k \in {"Ok", "Err", "Panic"}
          /\ (regex.variant = "Wrap" /\ IsCharBoundary(text, r_from_pos.pos)) =>
                r_from_pos.res.k = "Ok"
          /\ r_from_pos.res.k = "Panic" =>
                /\ regex.variant = "Wrap"
                /\ SlicePanics(text, r_from_pos.pos)
          /\ r_from_pos.res.k = "Err" =>
                /\ regex.variant = "Impl"
                /\ r_from_pos.res.err \in {"StackOverflow", "BacktrackLimitExceeded"}

\* The four operations have returned Ok on a Wrap regex without inner1,
\* captures_from_pos from a boundary inside the text.
C11_Witness ==
    /\ regex.variant = "Wrap" /\ regex.inner1 = None
    /\ IsCalled(r_is_match) /\ r_is_match.res.k = "Ok"
    /\ IsCalled(r_find) /\ r_find.res.k = "Ok"
    /\ IsCalled(r_captures) /\ r_captures.res.k = "Ok"
    /\ IsCalled(r_from_pos) /\ r_from_pos.pos > 0 /\ r_from_pos.pos < Len(text)
    /\ IsOkSome(r_from_pos.res)

\* A Match lies in its text: start <= end <= len(text), both on code-point
\* boundaries.
ValidMatch(m) ==
    /\ m.start <= m.end /\ m.end <= Len(m.text)
    /\ IsCharBoundary(m.text, m.start) /\ IsCharBoundary(m.text, m.end)
    /\ m.text = text

\* Every Match that get returns of a Captures, for an index of a group or
\* beyond, in a build with or without overflow checks, is a valid Match.
ValidCaptures(res) ==
    IsOkSome(res) =>
        \A i \in (0..MaxIndex) \cup {UsizeMax}, overflow_checks \in BOOLEAN :
            LET m == CapturesGet(res.v.v, i, overflow_checks)
            IN  m.k = "Some" => ValidMatch(m.v)

\* C12 (as claimed): every Match returned by find or by a Captures (get,
\* iteration), on the Wrap paths with offset 0, pos or the stepped-back offset
\* and on Impl, has start <= end <= len(text) on code-point boundaries of the
\* full text; no end is the unset sentinel.
C12_SpansInText ==
    /\ (IsCalled(r_find) /\ IsOkSome(r_find.res)) => ValidMatch(r_find.res.v.v)
    /\ IsCalled(r_captures) => ValidCaptures(r_captures.res)
    /\ IsCalled(r_from_pos) => ValidCaptures(r_from_pos.res)

\* C12 (amended): every Match returned by find or by a Captures of captures
\* is in the text, and so is every Match of a Captures of captures_from_pos
\* on a Wrap regex, whatever pos is, and on an Impl regex when pos is a
\* code-point boundary of text, at most len(text).  On Impl the VM starts at
\* pos as it is given: from a pos beyond the end of text or inside a code
\* point a match of the empty string is returned as the Match [pos, pos).
C12_SpansInTextFromBoundaries ==
    /\ (IsCalled(r_find) /\ IsOkSome(r_find.res)) => ValidMatch(r_find.res.v.v)
    /\ IsCalled(r_captures) => ValidCaptures(r_captures.res)
    /\ (IsCalled(r_from_pos)
          /\ (regex.variant = "Impl" => ~SlicePanics(text, r_from_pos.pos))) =>
          ValidCaptures(r_from_pos.res)
    /\ (IsCalled(r_from_pos) /\ regex.original = Str("(?!a)")
          /\ SlicePanics(text, r_from_pos.pos)) =>
          /\ IsOkSome(r_from_pos.res)
          /\ CapturesGet(r_from_pos.res.v.v, 0, TRUE) =
                Some(MatchNew(text, r_from_pos.pos, r_from_pos.pos))

\* A Captures produced through inner1 from a position after a two-byte code
\* point.
C12_Witness ==
    /\ text = <<195, 169, 46, 120>>
    /\ IsCalled(r_from_pos) /\ r_from_pos.pos = 2 /\ IsOkSome(r_from_pos.res)
    /\ r_from_pos.res.v.v.variant = "Wrap"
    /\ r_from_pos.res.v.v.enclosing_groups = 1

(***************************************************************************)
(* A Captures in the caller's hands: get and iteration                     *)
(***************************************************************************)
\* caps is the Captures of a match that captures_from_pos has found.
InitCaptures ==
    /\ regex \in Regexes
    /\ text \in Texts
    /\ r_is_match = NotCalled
    /\ r_find = NotCalled
    /\ r_captures = NotCalled
    /\ \E pos \in Positions(text) :
          LET res == captures_from_pos(regex, text, pos)
          IN  /\ IsOkSome(res)
              /\ r_from_pos = [k |-> "Called", pos |-> pos, res |-> res]
              /\ caps = res.v.v
    /\ got = NotCalled
    /\ iter = NotCalled
    /\ InitNoBuilder
    /\ InitNoApplied

\* caps.get(i)
Get ==
    \E i \in (0..MaxIndex) \cup {UsizeMax}, overflow_checks \in BOOLEAN :
        /\ got' = [k |-> "Called", i |-> i, overflow_checks |-> overflow_checks,
                   res |-> CapturesGet(caps, i, overflow_checks)]
        /\ UNCHANGED <<matchVars, caps, iter, builderVars, applied>>

\* caps.iter()
Iter0 ==
    /\ iter' = [k |-> "Called", it |-> CapturesIter(caps), returned |-> <<>>]
    /\ UNCHANGED <<matchVars, caps, got, builderVars, applied>>

\* iter.next(): what it returns is appended to iter.returned; a panic is
\* recorded in its place and the index stays.
IterNext ==
    /\ IsCalled(iter)
    /\ Len(iter.returned) < CapturesLen(caps, TRUE) + MaxExtraNext
    /\ \E overflow_checks \in BOOLEAN :
          LET r == SubCaptureMatchesNext(caps, iter.it, overflow_checks)
          IN  iter' = IF r = Panic THEN [iter EXCEPT !.returned = Append(@, Panic)]
                      ELSE [iter EXCEPT !.it = r.it, !.returned = Append(@, r.item)]
    /\ UNCHANGED <<matchVars, caps, got, builderVars, applied>>

NextCaptures == Get \/ Iter0 \/ IterNext

SpecCaptures == InitCaptures /\ [][NextCaptures]_vars

\* C2 (as claimed): get(i) is None, and neither fails nor panics, for every
\* i >= len(), on Wrap and on Impl.
C2_GetBeyondLenIsNone ==
    (IsCalled(got) /\ ~UsizeLt(got.i, CapturesLen(caps, TRUE))) => got.res = None

\* C6: iteration yields exactly len() items, the k-th being get(k); every
\* further next() returns None and leaves the iterator's index alone.
C6_IterationYieldsGroups ==
    IsCalled(iter) =>
        /\ \A k \in 1..Len(iter.returned) :
              IF k <= CapturesLen(caps, TRUE)
              THEN iter.returned[k] = Some(CapturesGet(caps, k - 1, TRUE))
              ELSE iter.returned[k] = None
        /\ iter.it.i = IF Len(iter.returned) <= CapturesLen(caps, TRUE)
                       THEN Len(iter.returned) ELSE CapturesLen(caps, TRUE)
        /\ \A k \in 0..(CapturesLen(caps, TRUE) - 1) : CapturesGet(caps, k, TRUE).k \in {"Some", "None"}

\* An iterator over a Captures with an unset group that has yielded every
\* group and then returned None twice.
C6_Witness ==
    /\ IsCalled(iter)
    /\ CapturesLen(caps, TRUE) = 3
    /\ Len(iter.returned) = 5
    /\ iter.returned[2] = Some(None)
    /\ iter.returned[5] = None

(***************************************************************************)
(* RegexBuilder                                                            *)
(***************************************************************************)
InitBuilder ==
    /\ regex \in {RegexNew(Str("\\d+")).v}
    /\ text = <<>>
    /\ r_is_match = NotCalled
    /\ r_find = NotCalled
    /\ r_captures = NotCalled
    /\ r_from_pos = NotCalled
    /\ InitNoCaps
    /\ \E p \in BuilderPatterns : builder = RegexBuilderNew(p)
    /\ built = NotCalled
    /\ InitNoApplied

BuilderNew ==
    \E p \in BuilderPatterns :
        builder' = RegexBuilderNew(p) /\ UNCHANGED <<matchVars, capsVars, built, applied>>
CaseInsensitive ==
    \E value \in BOOLEAN :
        builder' = SetCaseInsensitive(builder, value) /\ UNCHANGED <<matchVars, capsVars, built, applied>>
MultiLine ==
    \E value \in BOOLEAN :
        builder' = SetMultiLine(builder, value) /\ UNCHANGED <<matchVars, capsVars, built, applied>>
DotMatchesNewLine ==
    \E value \in BOOLEAN :
        builder' = SetDotMatchesNewLine(builder, value) /\ UNCHANGED <<matchVars, capsVars, built, applied>>
Unicode ==
    \E value \in BOOLEAN :
        builder' = SetUnicode(builder, value) /\ UNCHANGED <<matchVars, capsVars, built, applied>>
SizeLimit ==
    \E value \in SizeLimits :
        builder' = SetSizeLimit(builder, value) /\ UNCHANGED <<matchVars, capsVars, built, applied>>
\* builder.build(): the builder as it was, the pattern compiled, the result
DoBuild ==
    /\ built' = [k |-> "Called", builder |-> builder, pattern |-> BuildPattern(builder),
                 res |-> Build(builder)]
    /\ UNCHANGED <<matchVars, capsVars, builder, applied>>

NextBuilder ==
    BuilderNew \/ CaseInsensitive \/ MultiLine \/ DotMatchesNewLine \/ Unicode
        \/ SizeLimit \/ DoBuild

SpecBuilder == InitBuilder /\ [][NextBuilder]_vars

\* The letters of the flags that are set in b, in the order i, m, s, u.
SetFlagLetters(b) ==
    Str((IF b.case_insensitive THEN "i" ELSE "") \o (IF b.multi_line THEN "m" ELSE "")
        \o (IF b.dot_matches_new_line THEN "s" ELSE "") \o (IF b.unicode THEN "u" ELSE ""))
AnyFlagSet(b) == b.case_insensitive \/ b.multi_line \/ b.dot_matches_new_line \/ b.unicode

\* C9 (as claimed): build compiles (?F) followed by the pattern when at least
\* one flag is set, F being the letters of the flags that are set, and the
\* pattern unchanged when no flag is set.
C9_BuildPatternFollowsFlags ==
    IsCalled(built) =>
        built.pattern = IF AnyFlagSet(built.builder)
                        THEN Str("(?") \o SetFlagLetters(built.builder) \o Str(")")
                                 \o built.builder.pattern
                        ELSE built.builder.pattern

(***************************************************************************)
(* prev_codepoint_ix on its own                                            *)
(***************************************************************************)
\* The UTF-8 encodings of U+0061, U+00E9, U+20AC and U+1F600.
CodePoints == {<<97>>, <<195, 169>>, <<226, 130, 172>>, <<240, 159, 152, 128>>}
\* The largest number of code points of a text.
MaxCodePoints == 3
\* The valid UTF-8 texts: the sequences of 1..MaxCodePoints code points.
CodePointSeqs == UNION {[1..n -> CodePoints] : n \in 1..MaxCodePoints}

RECURSIVE Flatten(_)
\* The bytes of a sequence of code points.
Flatten(cps) == IF cps = <<>> THEN <<>> ELSE Head(cps) \o Flatten(Tail(cps))

\* The text is any valid UTF-8 text of 1..MaxCodePoints code points.
InitCodepoint ==
    /\ regex \in {RegexNew(Str("\\d+")).v}
    /\ text \in {Flatten(cps) : cps \in CodePointSeqs}
    /\ r_is_match = NotCalled
    /\ r_find = NotCalled
    /\ r_captures = NotCalled
    /\ r_from_pos = NotCalled
    /\ InitNoCaps
    /\ InitNoBuilder
    /\ InitNoApplied

\* prev_codepoint_ix(text, ix) for 0 < ix <= len(text)
PrevCodepointIx ==
    \E ix \in 1..Len(text) :
        /\ applied' = [k |-> "Called", s |-> text, ix |-> ix,
                       res |-> prev_codepoint_ix(text, ix)]
        /\ UNCHANGED <<matchVars, capsVars, builderVars>>

NextCodepoint == PrevCodepointIx

SpecCodepoint == InitCodepoint /\ [][NextCodepoint]_vars

RECURSIVE BoundariesFrom(_, _)
\* The code-point boundaries of s from the boundary i on, reading s forward:
\* where a code point starts, and the end of s.
BoundariesFrom(s, i) ==
    IF i >= Len(s) THEN {i} ELSE {i} \cup BoundariesFrom(s, i + codepoint_len(s[i + 1]))

\* C17: for a valid UTF-8 text s and 0 < ix <= len(s), prev_codepoint_ix(s, ix)
\* does not step below 0 and returns the greatest code-point boundary of s
\* below ix; when ix is a boundary that is exactly one code point before ix.
C17_PrevCodepointIx ==
    IsCalled(applied) =>
        LET B == BoundariesFrom(applied.s, 0)
        IN  /\ applied.res >= 0
            /\ applied.res < applied.ix
            /\ applied.res \in B
            /\ \A b \in B : b < applied.ix => b <= applied.res
            /\ applied.ix \in B =>
                  applied.res + codepoint_len(applied.s[applied.res + 1]) = applied.ix

\* prev_codepoint_ix has stepped back over a four-byte code point that
\* follows an ASCII one.
C17_Witness ==
    /\ IsCalled(applied)
    /\ applied.s = <<97, 240, 159, 152, 128>>
    /\ applied.ix = 5
    /\ applied.res = 1

(***************************************************************************)
(* Expr::to_str, Expr::parse and Regex::new on their own                   *)
(***************************************************************************)
\* The expressions to_str is applied to: the literals "a", "b", "ab" and
\* U+00E9, and Concat, Alt, Repeat and Group over them, nested twice.
Atoms ==
    {Literal(Str("a"), FALSE), Literal(Str("b"), FALSE), Literal(Str("ab"), FALSE),
     Literal(<<233>>, FALSE)}
Compose(S) ==
    S \cup {Concat(<<x, y>>) : x \in S, y \in S}
      \cup {Alt(<<x, y>>) : x \in S, y \in S}
      \cup {Repeat(x, 2, 3, TRUE) : x \in S}
      \cup {Group(x) : x \in S}
Exprs == Compose(Compose(Atoms))

\* The patterns parse and Regex::new are applied to: an atom, a quantifier,
\* possibly a second atom and a last alternative.
EasyAtoms ==
    {"a", "\\.", "\\d", ".", "(a)", "(?:a|b)", "(?:ab)", "(?i:a)", "(a|)", "(|b)", "(?m:^)",
     "(?:)", "()", "(?:|)"}
HardAtoms == {"(?=a)", "(?!a)", "(?<=a)", "(?>a)", "(a)\\1", "(?<=a*)", "\\2"}
Quantifiers == {"", "+", "*?", "{2}", "{2,}", "{10,12}"}
Tails == {"", "|b", "|"}
\* Atoms of one character that is not printable ASCII or is the grave
\* accent: a line feed, '`', DEL and U+00E9.
OtherAtoms == {<<10>>, <<96>>, <<127>>, <<233>>}
PatternInputs ==
    {x \o Str(q \o y \o t) :
        x \in {Str(a) : a \in EasyAtoms \cup HardAtoms} \cup OtherAtoms,
        q \in Quantifiers, y \in {"", "a", "(?:a|b)", "(?=a)", "\\.", "(?:)", "(?:)?"},
        t \in Tails}

\* The input is an expression or a pattern.
InitExpr ==
    /\ regex \in {RegexNew(Str("\\d+")).v}
    /\ text = <<>>
    /\ r_is_match = NotCalled
    /\ r_find = NotCalled
    /\ r_captures = NotCalled
    /\ r_from_pos = NotCalled
    /\ InitNoCaps
    /\ InitNoBuilder
    /\ \/ applied \in {[k |-> "Expr", e |-> e] : e \in Exprs}
       \/ applied \in {[k |-> "Pattern", re |-> re] : re \in PatternInputs}

\* e.to_str(&mut s, 0)
ToStr ==
    /\ applied.k = "Expr"
    /\ applied' = [k |-> "Called", f |-> "to_str", e |-> applied.e,
                   res |-> to_str(applied.e, 0)]
    /\ UNCHANGED <<matchVars, capsVars, builderVars>>

\* Expr::parse of an easy pattern, to_str of the AST, Expr::parse of the
\* string written.
RoundTrip ==
    /\ applied.k = "Pattern"
    /\ Parse(applied.re).k = "Ok"
    /\ ~Hard(Parse(applied.re).v)
    /\ applied' = [k |-> "Called", f |-> "round_trip", re |-> applied.re,
                   ast |-> Parse(applied.re).v,
                   cooked |-> to_str(Parse(applied.re).v, 0),
                   again |-> Parse(to_str(Parse(applied.re).v, 0))]
    /\ UNCHANGED <<matchVars, capsVars, builderVars>>

\* Regex::new(re)
New ==
    /\ applied.k = "Pattern"
    /\ applied' = [k |-> "Called", f |-> "new", re |-> applied.re,
                   res |-> RegexNew(applied.re)]
    /\ UNCHANGED <<matchVars, capsVars, builderVars>>

NextExpr == ToStr \/ RoundTrip \/ New

SpecExpr == InitExpr /\ [][NextExpr]_vars

RECURSIVE Flat(_), FlatItems(_)
\* e with its literals cut into characters and a Concat in a Concat spliced
\* into it: the structure of e that a pattern string can express.
Flat(e) ==
    CASE e.t = "Literal" ->
            IF Len(e.val) = 1 THEN e
            ELSE Concat([i \in 1..Len(e.val) |-> Literal(<<e.val[i]>>, e.casei)])
      [] e.t = "Concat" -> Concat(FlatItems(e.children))
      [] e.t = "Alt" -> Alt([i \in DOMAIN e.children |-> Flat(e.children[i])])
      [] e.t \in {"Group", "Repeat"} -> [e EXCEPT !.child = Flat(@)]
      [] OTHER -> e
FlatItems(children) ==
    IF children = <<>> THEN <<>>
    ELSE LET first == Flat(Head(children))
         IN  (IF first.t = "Concat" THEN first.children ELSE <<first>>)
                 \o FlatItems(Tail(children))

\* C15 (as claimed): to_str respects the precedence alternation <
\* concatenation < repetition < atom: the string it writes reads back as the
\* expression it was written from (an Alt in a Concat or a Repeat and a Concat
\* in a Repeat stay one operand, a quantifier applies to the whole child), and
\* the child of a Group gets no parentheses of its own; Concat[Alt[a,b], c]
\* gives (?:a|b)c, Repeat{Concat[a,b],2,3} gives (?:ab){2,3}, Group(Alt[a,b])
\* gives (a|b).
C15_ToStrPrecedence ==
    (IsCalled(applied) /\ applied.f = "to_str") =>
        LET e == applied.e
            a == Literal(Str("a"), FALSE)
            b == Literal(Str("b"), FALSE)
            read == Parse(applied.res)
        IN  /\ read.k = "Ok" /\ Flat(read.v) = Flat(e)
            /\ e.t = "Group" => applied.res = Str("(") \o to_str(e.child, 0) \o Str(")")
            /\ e = Concat(<<Alt(<<a, b>>), a>>) => applied.res = Str("(?:a|b)a")
            /\ e = Repeat(Concat(<<a, b>>), 2, 3, TRUE) => applied.res = Str("(?:ab){2,3}")
            /\ e = Group(Alt(<<a, b>>)) => applied.res = Str("(a|b)")

\* C14 (as claimed): for every easy pattern, parsing it, writing the AST with
\* to_str and parsing what was written yields the first AST again, also with
\* repetitions and with an empty alternative.
C14_RoundTrip ==
    (IsCalled(applied) /\ applied.f = "round_trip") => applied.again = Ok(applied.ast)

RECURSIVE Optionalised(_)
\* e with every Alt that has an empty alternative replaced by the greedy
\* optional repetition of its other alternatives.
Optionalised(e) ==
    CASE e.t = "Alt" ->
            LET kept == SelectSeq(e.children, LAMBDA c : c # Empty)
                others == [i \in DOMAIN kept |-> Optionalised(kept[i])]
            IN  IF Len(kept) = Len(e.children) THEN Alt(others)
                ELSE Repeat(IF others = <<>> THEN Empty
                            ELSE IF Len(others) = 1 THEN others[1]
                            ELSE Alt(others),
                            0, 1, TRUE)
      [] e.t = "Concat" -> Concat([i \in DOMAIN e.children |-> Optionalised(e.children[i])])
      [] e.t \in {"Group", "Repeat"} -> [e EXCEPT !.child = Optionalised(@)]
      [] OTHER -> e

RECURSIVE HasEmptyRepeat(_)
\* e has a repetition of Empty.
HasEmptyRepeat(e) ==
    CASE e.t \in {"Concat", "Alt"} ->
            \E i \in DOMAIN e.children : HasEmptyRepeat(e.children[i])
      [] e.t = "Repeat" -> e.child = Empty \/ HasEmptyRepeat(e.child)
      [] e.t \in {"Group", "LookAround", "AtomicGroup"} -> HasEmptyRepeat(e.child)
      [] OTHER -> FALSE

\* C14 (amended): for every easy pattern whose AST has neither an empty
\* alternative nor a repetition of Empty the second parse yields the first
\* AST again.  An alternation with an empty alternative is written as an
\* optional group and parses as the greedy optional repetition of its other
\* alternatives; a repetition of Empty is written as its braces alone, which
\* do not parse or repeat what stands before them, so that the second parse
\* never yields the first AST.
C14_RoundTripWithoutEmptyOperand ==
    (IsCalled(applied) /\ applied.f = "round_trip") =>
        /\ (~HasEmptyAlt(applied.ast) /\ ~HasEmptyRepeat(applied.ast)) =>
              applied.again = Ok(applied.ast)
        /\ ~HasEmptyRepeat(applied.ast) => applied.again = Ok(Optionalised(applied.ast))
        /\ HasEmptyRepeat(applied.ast) =>
              \/ applied.again.k = "Err"
              \/ applied.again.k = "Ok" /\ applied.again.v # applied.ast

\* The round trip of a pattern with a repetition, an escaped character and an
\* alternation has been made.
C14_Witness ==
    /\ IsCalled(applied) /\ applied.f = "round_trip"
    /\ applied.re = Str("(?:a|b){10,12}\\.|b")
    /\ applied.cooked = Str("(?:a|b){10,12}\\.|b")
    /\ applied.again = Ok(applied.ast)

\* C16: Regex::new builds Wrap exactly when the user's expression is not hard
\* and Impl otherwise (a hard expression that analysis or compilation rejects
\* builds nothing and gives InvalidBackref or LookBehindNotConst), and never
\* reaches the panic of to_str.
C16_WrapIffNotHard ==
    (IsCalled(applied) /\ applied.f = "new") =>
        LET parsed == Parse(applied.re)
        IN  /\ applied.res.k \in {"Ok", "Err"}
            /\ applied.res.k = "Ok" =>
                  /\ parsed.k = "Ok"
                  /\ (applied.res.v.variant = "Wrap") <=> ~Hard(parsed.v)
                  /\ (applied.res.v.variant = "Impl") <=> Hard(parsed.v)
                  /\ applied.res.v.variant = "Wrap" => ~ToStrPanics(parsed.v)
            /\ (parsed.k = "Ok" /\ Hard(parsed.v)) =>
                  \/ applied.res.k = "Ok" /\ applied.res.v.variant = "Impl"
                  \/ /\ applied.res.k = "Err"
                     /\ applied.res.err \in {"InvalidBackref", "LookBehindNotConst"}

\* Regex::new of a pattern with a backreference under a repetition has built
\* the Impl variant.
C16_Witness ==
    /\ IsCalled(applied) /\ applied.f = "new"
    /\ applied.re = Str("(a)\\1+a")
    /\ applied.res.k = "Ok" /\ applied.res.v.variant = "Impl"

(***************************************************************************)
(* The match operations on easy patterns with alternations                 *)
(***************************************************************************)
\* Easy patterns: alternatives of which one is a prefix of another, and empty
\* alternatives first, in the middle and last.
ParityPatterns ==
    {"a|ab", "ab|a", "(a|b)+", "(a)|b", "(a|)b", "a|", "(|a)", "|a", "(a||b)b", "\\d+"}
ParityTexts ==
    { <<>>, <<97>>, <<97, 98>>, <<98, 97>>, <<98, 98>>, <<120, 97, 49>> }  \* "", "a", "ab", "ba", "bb", "xa1"

InitParity ==
    /\ regex \in {RegexNew(Str(p)).v : p \in ParityPatterns}
    /\ text \in ParityTexts
    /\ r_is_match = NotCalled
    /\ r_find = NotCalled
    /\ r_captures = NotCalled
    /\ r_from_pos = NotCalled
    /\ InitNoCaps
    /\ InitNoBuilder
    /\ InitNoApplied

SpecParity == InitParity /\ [][Next]_vars

\* The group spans of the first match, from pos on, of the AST the pattern
\* parses to (the alternatives tried in the order written), or <<>> if there
\* is no match.
ParsedSpans(rx, t, pos) ==
    LET r == VmRun(CompileProg(WrapExpr(UserExpr(rx))), t, pos, LinearOpts)
    IN  IF r.k = "Some"
        THEN <<[i \in 0..(Len(r.saves) \div 2 - 1) |->
                   IF r.saves[2 * i + 1] = UsizeMax THEN <<>>
                   ELSE <<r.saves[2 * i + 1], r.saves[2 * i + 2]>>]>>
        ELSE <<>>
\* The group spans an operation returned, or <<>> for no match.
ReturnedSpans(res) == IF IsOkSome(res) THEN <<Spans(res.v.v)>> ELSE <<>>

\* C13: on a Wrap regex every operation returns the matches of the AST the
\* pattern parses to, with the priority of its alternatives, wherever an
\* empty alternative stands.
C13_WrapMatchesAsParsed ==
    regex.variant = "Wrap" =>
        /\ IsCalled(r_is_match) =>
              /\ r_is_match.res.k = "Ok"
              /\ r_is_match.res.v <=> ParsedSpans(regex, text, 0) # <<>>
        /\ IsCalled(r_find) =>
              /\ r_find.res.k = "Ok"
              /\ Span(r_find.res.v) =
                    (IF ParsedSpans(regex, text, 0) = <<>> THEN <<>>
                     ELSE ParsedSpans(regex, text, 0)[1][0])
        /\ IsCalled(r_captures) =>
              /\ r_captures.res.k = "Ok"
              /\ ReturnedSpans(r_captures.res) = ParsedSpans(regex, text, 0)
        /\ (IsCalled(r_from_pos) /\ IsCharBoundary(text, r_from_pos.pos)) =>
              /\ r_from_pos.res.k = "Ok"
              /\ ReturnedSpans(r_from_pos.res) = ParsedSpans(regex, text, r_from_pos.pos)

====
